---------------------------- MODULE Spec2Model ----------------------------
(***************************************************************************)
(* A model of the Etherfields audio engine (src/unnamed/part_000, the hook *)
(* useAudioEngine and its LoopingPlayer class).                            *)
(*                                                                         *)
(* Time is counted in ticks of 25 ms, the player's wake-up period, so that *)
(* every duration of the source is a whole number of ticks.  Gains are     *)
(* whole numbers on a scale where GainScale stands for the gain 1.0.       *)
(* There are two clocks, as in the browser: the timer clock `wall`, which  *)
(* setTimeout is measured on, and each audio context's own currentTime,    *)
(* which advances only while that context is running.                      *)
(***************************************************************************)
EXTENDS Integers, Sequences, FiniteSets, TLC

(***************************************************************************)
(* Program constants, in ticks of 25 ms.                                   *)
(***************************************************************************)
OVERLAP_DURATION == 4
\* part_000:15, 0.1 s

lookahead == 1
\* part_000:27, 25 ms

scheduleAheadTime == 4
\* part_000:28, 0.1 s

startDelay == 4
\* part_000:72, currentTime + 0.1

FADE_TIME == 140
\* constants.ts:52, 3.5 s

defaultDuration == 4
\* part_000:267 and 278, duration = 0.1

fadeOutDuration == 20
\* part_000:315, 0.5 s

fadeInDuration == 60
\* part_000:316, 1.5 s

silentDuration == 80
\* part_000:230, createSilentAudioBuffer(context, 2)

(***************************************************************************)
(* Bounds of the model.                                                    *)
(***************************************************************************)
GainScale == 100
\* the integer that stands for the gain 1.0

MaxWall == 12
\* the player specification stops the clock here

MaxCalls == 3
\* start()/stop() calls made on the player under test

ShortBuffer == 3
\* a buffer shorter than the overlap

assetDuration == 120
\* the length of a decoded layer asset

MaxOps == 4
\* calls and host events the engine specification allows

MaxCtx == 2
\* audio contexts the engine specification allows

EngineStep == 20
\* the engine specification advances the clocks by this much

MaxMixCalls == 3
\* calls the specification of the volume controls allows

MaxEngineWall == 160
\* the specification of the volume controls stops the clock here

MaxResetWall == 100
\* the specification of mute and reset stops the clock here

MaxLifeCalls == 3
\* calls the life cycle specification allows

MaxLifeWall == 20
\* the life cycle specification stops the clock here

MaxHandlerCalls == 3
\* calls the specification of the event handlers allows

MaxHandlerWall == 40
\* the specification of the event handlers stops the clock here

MaxSessions == 2
\* the page is loaded at most this many times

MaxAppWall == 40
\* the specification of App stops the clock of each load here

VARIABLES
    wall,        \* the timer clock
    ctxs,        \* the audio contexts created so far: [state, currentTime]
    timers,      \* the pending setTimeout timers, in the order they were set
    players,     \* the LoopingPlayer objects created so far
    segs,        \* the buffer sources each player has started: [time, at, run]
    calls,       \* the number of calls the environment has made so far
    last,        \* the last call made or continuation run, its first
                 \* argument, whether it returned at its guard, and the
                 \* level the master gain was heading for when it began
    \* the refs of useAudioEngine; a Map is a function on the keys it holds and
    \* an object reference is an index into ctxs, gains, audios or players,
    \* 0 for null
    audioContextRef, masterGainRef, layerPlayersRef, layerAudioBuffersRef,
    themeAudioElementsRef, themeGainNodesRef,
    \* the React state of useAudioEngine
    isInitialized, isLoading, isMuted, audioState, activeThemeId,
    currentVolumes,
    gains,       \* the GainNodes of the master and of the themes: [ctx, gain]
    audios,      \* the HTMLAudioElements created so far: [theme, paused, src]
    inits,       \* the initializeAudio calls that are waiting on a promise
    events,      \* promise reactions and events queued for the main thread
    props,       \* the props of the hook: initialThemeId, initialVolumes,
                 \* initialMainVolume
    rendered,    \* the React state as of the last render, which the callbacks
                 \* of the hook closed over (their useCallback dependencies)
    app          \* the component that mounts the hook: its React state, what
                 \* it has written to localStorage and the calls its running
                 \* event handler has still to make

lpVars == <<wall, ctxs, timers, players, segs, calls, last>>

refVars == <<audioContextRef, masterGainRef, layerPlayersRef,
             layerAudioBuffersRef, themeAudioElementsRef, themeGainNodesRef>>

stateVars == <<isInitialized, isLoading, isMuted, audioState, activeThemeId,
               currentVolumes>>

heapVars == <<gains, audios, inits, events, props>>

vars == <<lpVars, refVars, stateVars, heapVars, rendered, app>>

(***************************************************************************)
(* AudioParam, after the Web Audio API: a current value, which the audio   *)
(* thread recomputes as currentTime advances, and a list of automation     *)
(* events sorted by time.  A "set" event holds its value from its time on; *)
(* a "ramp" event ends a linear ramp that begins at the event before it.   *)
(***************************************************************************)
NewParam(v) == [value |-> v, ev |-> <<>>]

\* the index of the last event at or before t, 0 if there is none
LastAt(ev, t) ==
    LET S == {i \in 1..Len(ev) : ev[i].t <= t}
    IN  IF S = {} THEN 0 ELSE CHOOSE i \in S : \A j \in S : j <= i

\* the value the automation timeline gives the parameter at time t
ValueAt(p, t) ==
    LET i == LastAt(p.ev, t)
    IN  IF i = 0 THEN p.value
        ELSE IF i < Len(p.ev) /\ p.ev[i + 1].kind = "ramp"
             THEN LET a == p.ev[i]
                      b == p.ev[i + 1]
                  IN  a.v + ((b.v - a.v) * (t - a.t)) \div (b.t - a.t)
             ELSE p.ev[i].v

\* the value the parameter settles at once every scheduled event has passed
Settled(p) == IF p.ev = <<>> THEN p.value ELSE p.ev[Len(p.ev)].v

\* an event list with e inserted after the events at or before its time
InsertEvent(ev, e) ==
    LET i == LastAt(ev, e.t)
    IN  SubSeq(ev, 1, i) \o <<e>> \o SubSeq(ev, i + 1, Len(ev))

\* AudioParam.cancelScheduledValues(t): the events at or after t are removed
cancelScheduledValues(p, t) ==
    [p EXCEPT !.ev = SelectSeq(p.ev, LAMBDA e : e.t < t)]

\* AudioParam.setValueAtTime(v, t)
setValueAtTime(p, v, t) ==
    [p EXCEPT !.ev = InsertEvent(p.ev, [kind |-> "set", v |-> v, t |-> t])]

\* AudioParam.linearRampToValueAtTime(v, t), called at context time now: with
\* no event before it the ramp begins at the current value and time
linearRampToValueAtTime(p, v, t, now) ==
    LET q == IF LastAt(p.ev, t) = 0 THEN setValueAtTime(p, p.value, now) ELSE p
    IN  [q EXCEPT !.ev = InsertEvent(q.ev, [kind |-> "ramp", v |-> v, t |-> t])]

\* AudioParam.value = v at context time now: the current value is assigned
\* and a setValueAtTime(v, now) is scheduled
setValue(p, v, now) == setValueAtTime([p EXCEPT !.value = v], v, now)

\* the audio thread at context time t: the current value follows the timeline
\* and the events that lie behind the last one reached are forgotten
Render(p, t) ==
    LET i == LastAt(p.ev, t)
    IN  [value |-> ValueAt(p, t),
         ev    |-> IF i <= 1 THEN p.ev ELSE SubSeq(p.ev, i, Len(p.ev))]


(***************************************************************************)
(* LoopingPlayer.  A player is a record of the fields of the class; `ctx`  *)
(* is the index of its AudioContext and `duration` is buffer.duration.     *)
(* `connected` says whether its gain node is connected to a destination.   *)
(* `run` counts the successful start() calls; it is not a field of the     *)
(* class and only labels the segments a run enqueues.  The operators work  *)
(* on a record W of the objects a call can touch: players, timers and      *)
(* segs.  A segment records the context time `at` which it was enqueued.   *)
(***************************************************************************)
World == [players |-> players, timers |-> timers, segs |-> segs]

RemoveAt(s, i) == SubSeq(s, 1, i - 1) \o SubSeq(s, i + 1, Len(s))

\* timers that are due together fire in any order
FiresInAnyOrder(i) == timers[i].due <= wall

\* the pending timer i may fire: it is due, and so is every timer set before
\* it with the same delay, which fires first
Fires(i) ==
    /\ timers[i].due <= wall
    /\ \A j \in 1..(i - 1) : timers[j].kind # timers[i].kind

\* the handle a new setTimeout returns to player pid (0: to the hook): one no
\* pending timer has and no other player holds
FreshTimer(W, pid) ==
    LET used == {W.timers[i].id : i \in DOMAIN W.timers}
                    \cup {W.players[i].timerId : i \in DOMAIN W.players \ {pid}}
    IN  CHOOSE n \in 1..(Cardinality(used) + 1) :
            /\ n \notin used
            /\ \A m \in 1..(n - 1) : m \in used

\* new LoopingPlayer(context, buffer, initialGain), at context time now; a
\* new GainNode has the gain 1
NewPlayer(c, dur, initialGain, now) ==
    [ctx |-> c, duration |-> dur,
     gain |-> setValue(NewParam(GainScale), initialGain, now),
     connected |-> FALSE,
     isPlaying |-> FALSE, nextNoteTime |-> 0, timerId |-> 0, run |-> 0]

\* scheduleNote(time), at context time now: a buffer source is created and
\* started at `time`
scheduleNote(W, pid, time, now) ==
    IF ~W.players[pid].isPlaying THEN W
    ELSE [W EXCEPT !.segs[pid] = Append(@, [time |-> time, at |-> now,
                                             run |-> W.players[pid].run])]

\* a scheduler loop that recomputes the next start time from the clock
\* instead of adding the period to it
scheduleLoopFromClock(W, pid, now) ==
    LET p == W.players[pid]
    IN  IF p.nextNoteTime < now + scheduleAheadTime
        THEN [scheduleNote(W, pid, p.nextNoteTime, now)
                 EXCEPT !.players[pid].nextNoteTime =
                            now + scheduleAheadTime
                                + (p.duration - OVERLAP_DURATION)]
        ELSE W

\* a scheduler loop that enqueues only what is already due
RECURSIVE scheduleLoopOnlyDue(_, _, _)
scheduleLoopOnlyDue(W, pid, now) ==
    IF W.players[pid].nextNoteTime < now
    THEN LET W1 == scheduleNote(W, pid, W.players[pid].nextNoteTime, now)
         IN  scheduleLoopOnlyDue(
                 [W1 EXCEPT !.players[pid].nextNoteTime =
                                @ + (W.players[pid].duration - OVERLAP_DURATION)],
                 pid, now)
    ELSE W

\* the while loop of scheduler(), at context time now
RECURSIVE scheduleLoop(_, _, _)
scheduleLoop(W, pid, now) ==
    IF W.players[pid].nextNoteTime < now + scheduleAheadTime
    THEN LET W1 == scheduleNote(W, pid, W.players[pid].nextNoteTime, now)
         IN  scheduleLoop(
                 [W1 EXCEPT !.players[pid].nextNoteTime =
                                @ + (W.players[pid].duration - OVERLAP_DURATION)],
                 pid, now)
    ELSE W

\* window.setTimeout(this.scheduler, this.lookahead), assigned to timerId
armScheduler(W, pid, wallNow) ==
    LET id == FreshTimer(W, pid)
    IN  [W EXCEPT !.timers = Append(@, [id |-> id, kind |-> "scheduler",
                                        owner |-> pid,
                                        due |-> wallNow + lookahead]),
                  !.players[pid].timerId = id]

\* scheduler(), at context time now and timer-clock time wallNow
scheduler(W, pid, now, wallNow) ==
    IF ~W.players[pid].isPlaying THEN W
    ELSE armScheduler(scheduleLoop(W, pid, now), pid, wallNow)

\* a guard of start() that forgets the length of the buffer
startRejectedNoLength(p) == p.isPlaying

\* a guard of start() that does not look at isPlaying
startRejectedOnlyShort(p) == p.duration <= OVERLAP_DURATION

\* the guard of start()
startRejected(p) == p.isPlaying \/ p.duration <= OVERLAP_DURATION

\* start()
start(W, pid, now, wallNow) ==
    IF startRejected(W.players[pid]) THEN W
    ELSE scheduler([W EXCEPT !.players[pid].isPlaying = TRUE,
                             !.players[pid].nextNoteTime = now + startDelay,
                             !.players[pid].run = @ + 1],
                   pid, now, wallNow)

\* a stop() that leaves the wake-up timer pending
stopKeepsTimer(W, pid) == [W EXCEPT !.players[pid].isPlaying = FALSE]

\* stop()
stop(W, pid) ==
    LET p == W.players[pid]
    IN  IF p.timerId # 0
        THEN [W EXCEPT !.players[pid].isPlaying = FALSE,
                       !.players[pid].timerId = 0,
                       !.timers = SelectSeq(@, LAMBDA t : t.id # p.timerId)]
        ELSE [W EXCEPT !.players[pid].isPlaying = FALSE]

\* connect(destination)
connect(W, pid) == [W EXCEPT !.players[pid].connected = TRUE]

\* disconnect()
disconnect(W, pid) == [W EXCEPT !.players[pid].connected = FALSE]

SetWorld(W) ==
    /\ players' = W.players
    /\ timers' = W.timers
    /\ segs' = W.segs

(***************************************************************************)
(* useAudioEngine.  The themes and layers are two of the catalogue's       *)
(* (constants.ts), in catalogue order.                                     *)
(***************************************************************************)
ThemeSeq == <<"dark-drone", "floating-dreaming">>

LayerSeq == <<"rain", "forest">>

Range(f) == {f[x] : x \in DOMAIN f}

Themes == Range(ThemeSeq)

Layers == Range(LayerSeq)

PosIn(seq, x) == CHOOSE j \in 1..Len(seq) : seq[j] = x

\* a Map or a Record<string, number>: a function on the keys it holds
EmptyMap == [k \in {} |-> 0]

Put(m, k, v) == [x \in DOMAIN m \cup {k} |-> IF x = k THEN v ELSE m[x]]

\* Map.get for a map of object references: 0 stands for undefined
Get(m, k) == IF k \in DOMAIN m THEN m[k] ELSE 0

\* the gain values the environment passes: 0, 0.2, 0.5, 0.7 and 1
Vol(tenths) == (tenths * GainScale) \div 10

\* the React state a render hands to the callbacks it creates: isInitialized
\* and currentVolumes to initializeAudio (part_000:264), activeThemeId to
\* selectTheme and setMainVolume (part_000:177, 287), isMuted to toggleMute
\* (part_000:303)
Snapshot(init, muted, theme, volumes) ==
    [isInitialized |-> init, isMuted |-> muted, activeThemeId |-> theme,
     currentVolumes |-> volumes]

\* the hook mounted on its own, by a caller that keeps no state and passes
\* it the props it likes (part_000:104)
NoApp == [session |-> 0, todo |-> <<>>, dirty |-> FALSE]

\* the hook after its first render with the props pr (part_000:105-121)
HookInit(pr) ==
    /\ audioContextRef = 0
    /\ masterGainRef = 0
    /\ layerPlayersRef = EmptyMap
    /\ layerAudioBuffersRef = EmptyMap
    /\ themeAudioElementsRef = EmptyMap
    /\ themeGainNodesRef = EmptyMap
    /\ isInitialized = FALSE
    /\ isLoading = FALSE
    /\ isMuted = FALSE
    /\ audioState = "Suspended"
    /\ activeThemeId = pr.initialThemeId
    /\ currentVolumes = pr.initialVolumes
    /\ gains = <<>>
    /\ audios = <<>>
    /\ inits = {}
    /\ events = {}
    /\ props = pr
    /\ rendered = Snapshot(FALSE, FALSE, pr.initialThemeId, pr.initialVolumes)

\* context.currentTime of the context with index c
Now(c) == ctxs[c].currentTime

\* context.createGain() followed by gain.value = v, at context time now; a
\* new GainNode has the gain 1
NewGain(c, v, now) ==
    [ctx |-> c, gain |-> setValue(NewParam(GainScale), v, now)]

\* a silent placeholder too short to be looped
shortSilentBuffer == [duration |-> OVERLAP_DURATION, silent |-> TRUE]

\* createSilentAudioBuffer(context, 2)
createSilentAudioBuffer == [duration |-> silentDuration, silent |-> TRUE]

\* a decoded asset
DecodedBuffer == [duration |-> assetDuration, silent |-> FALSE]

(***************************************************************************)
(* initializeAudio.  The call runs up to its first await; each later       *)
(* action is one promise settling together with the code that awaits it.   *)
(* A waiting call is a record of its locals: the context, the master gain, *)
(* the currentVolumes its closure captured, the loads still pending and    *)
(* the elements whose play() it awaits.                                    *)
(***************************************************************************)
\* part_000:192-233: the master gain, the theme elements and gains, the loads
setUp(c, now) ==
    LET n == Len(ThemeSeq)
        initialGain(th) ==
            IF th = props.initialThemeId THEN props.initialMainVolume ELSE 0
    IN  /\ isLoading' = TRUE
        /\ gains' = gains \o <<NewGain(c, 0, now)>>
                \o [j \in 1..n |-> NewGain(c, initialGain(ThemeSeq[j]), now)]
        /\ masterGainRef' = Len(gains) + 1
        /\ audios' = audios
                \o [j \in 1..n |->
                        [theme |-> ThemeSeq[j], paused |-> TRUE, src |-> TRUE]]
        /\ themeAudioElementsRef' =
               [th \in DOMAIN themeAudioElementsRef \cup Themes |->
                   IF th \in Themes THEN Len(audios) + PosIn(ThemeSeq, th)
                   ELSE themeAudioElementsRef[th]]
        /\ themeGainNodesRef' =
               [th \in DOMAIN themeGainNodesRef \cup Themes |->
                   IF th \in Themes THEN Len(gains) + 1 + PosIn(ThemeSeq, th)
                   ELSE themeGainNodesRef[th]]

\* the call as it waits for its loads, after setUp
Loading(c, vols) ==
    [pc |-> "loading", ctx |-> c, master |-> Len(gains) + 1, volumes |-> vols,
     loads |-> Layers, played |-> {}]

\* the level the master gain is heading for, 0 when there is none
Heard ==
    IF masterGainRef = 0 THEN 0 ELSE Settled(gains[masterGainRef].gain)

\* part_000:180-192
InitializeCall(States) ==
    /\ calls < MaxOps
    /\ calls' = calls + 1
    /\ last' = [op |-> "initialize", arg |-> "",
                 returned |-> rendered.isInitialized, master |-> Heard]
    /\ IF rendered.isInitialized
       THEN UNCHANGED <<wall, ctxs, timers, players, segs, refVars, stateVars,
                        heapVars>>
       ELSE /\ Len(ctxs) < MaxCtx
            /\ \E st \in States :
                /\ ctxs' = Append(ctxs, [state |-> st, currentTime |-> 0,
                                         closing |-> FALSE])
                /\ audioContextRef' = Len(ctxs) + 1
                /\ audioState' = st
                /\ IF st = "suspended"
                   THEN /\ inits' = inits \cup
                               {[pc |-> "resume", ctx |-> Len(ctxs) + 1,
                                 master |-> 0,
                                 volumes |-> rendered.currentVolumes,
                                 loads |-> {}, played |-> {}]}
                        /\ UNCHANGED <<masterGainRef, themeAudioElementsRef,
                                       themeGainNodesRef, isLoading, gains,
                                       audios>>
                   ELSE /\ setUp(Len(ctxs) + 1, 0)
                        /\ inits' = inits \cup
                               {Loading(Len(ctxs) + 1,
                                        rendered.currentVolumes)}
            /\ UNCHANGED <<wall, timers, players, segs, layerPlayersRef,
                           layerAudioBuffersRef, isInitialized, isMuted,
                           activeThemeId, currentVolumes, events, props>>

\* part_000:188-190: context.resume() settles.  It rejects on a context that
\* is being closed, and the call ends there, outside its try block.
ResumeSettles ==
    \E r \in inits :
        /\ r.pc = "resume"
        /\ IF ctxs[r.ctx].closing
           THEN /\ inits' = inits \ {r}
                /\ UNCHANGED <<ctxs, events, masterGainRef,
                               themeAudioElementsRef, themeGainNodesRef,
                               isLoading, gains, audios>>
           ELSE /\ ctxs' = [ctxs EXCEPT ![r.ctx].state = "running"]
                /\ events' = events \cup {[kind |-> "statechange", ctx |-> r.ctx]}
                /\ setUp(r.ctx, Now(r.ctx))
                /\ inits' = (inits \ {r}) \cup {Loading(r.ctx, r.volumes)}
        /\ UNCHANGED <<wall, timers, players, segs, calls, last,
                       audioContextRef, layerPlayersRef, layerAudioBuffersRef,
                       isInitialized, isMuted, audioState, activeThemeId,
                       currentVolumes, props>>

\* part_000:238-247: one player per layer that has a buffer; S is the world
\* and the players map so far, e the locals of the call
RECURSIVE createLayerPlayers(_, _, _)
createLayerPlayers(S, k, e) ==
    IF k > Len(LayerSeq) THEN S
    ELSE LET l == LayerSeq[k]
         IN  IF l \notin DOMAIN e.bufs THEN createLayerPlayers(S, k + 1, e)
             ELSE LET pid == Len(S.W.players) + 1
                      initialGainValue ==
                          IF l \in DOMAIN e.volumes THEN e.volumes[l] ELSE 0
                      W1 == [S.W EXCEPT !.players =
                                Append(@, NewPlayer(e.ctx, e.bufs[l].duration,
                                                    initialGainValue, e.now)),
                                        !.segs = Append(@, <<>>)]
                      W2 == start(connect(W1, pid), pid, e.now, e.wallNow)
                  IN  createLayerPlayers(
                          [W |-> W2, ref |-> Put(S.ref, l, pid)], k + 1, e)

\* part_000:218-253: the load of layer l settles with the buffer buf, decoded
\* or silent.  When it is the last one, Promise.all resolves and the call
\* goes on in the same turn: the players are created and started and play()
\* is called on every theme element.
LoadSettles(Buffers) ==
    \E r \in inits, l \in Layers, buf \in Buffers :
        /\ r.pc = "loading"
        /\ l \in r.loads
        /\ layerAudioBuffersRef' = Put(layerAudioBuffersRef, l, buf)
        /\ IF r.loads = {l}
           THEN LET S == createLayerPlayers(
                             [W |-> World, ref |-> layerPlayersRef], 1,
                             [ctx |-> r.ctx, bufs |-> layerAudioBuffersRef',
                              volumes |-> r.volumes, now |-> Now(r.ctx),
                              wallNow |-> wall])
                    els == Range(themeAudioElementsRef)
                IN  /\ SetWorld(S.W)
                    /\ layerPlayersRef' = S.ref
                    /\ audios' = [a \in DOMAIN audios |->
                                     IF a \in els
                                     THEN [audios[a] EXCEPT !.paused = FALSE]
                                     ELSE audios[a]]
                    /\ inits' = (inits \ {r}) \cup
                           {[r EXCEPT !.pc = "playing", !.loads = {},
                                      !.played = els]}
           ELSE /\ inits' = (inits \ {r}) \cup {[r EXCEPT !.loads = @ \ {l}]}
                /\ UNCHANGED <<timers, players, segs, layerPlayersRef, audios>>
        /\ UNCHANGED <<wall, ctxs, calls, last, audioContextRef, masterGainRef,
                       themeAudioElementsRef, themeGainNodesRef, stateVars,
                       gains, events, props>>

\* a PlaySettles that gives up when the browser refuses to play: the master
\* gain is left at 0
PlaySettlesAborting(Refusals) ==
    \E r \in inits :
        /\ r.pc = "playing"
        /\ \E refused \in Refusals :
               /\ audios' = [a \in DOMAIN audios |->
                                IF refused /\ a \in r.played
                                THEN [audios[a] EXCEPT !.paused = TRUE]
                                ELSE audios[a]]
               /\ gains' = IF refused THEN gains
                           ELSE [gains EXCEPT ![r.master].gain =
                                    linearRampToValueAtTime(@, GainScale,
                                        Now(r.ctx) + FADE_TIME, Now(r.ctx))]
        /\ isLoading' = FALSE
        /\ isInitialized' = TRUE
        /\ inits' = inits \ {r}
        /\ UNCHANGED <<lpVars, refVars, isMuted, audioState, activeThemeId,
                       currentVolumes, events, props>>

\* part_000:253-263: the play() promises settle, all fulfilled or, when the
\* browser refuses to play, all rejected; the master gain is ramped to 1 and
\* the finally block runs
PlaySettles(Refusals) ==
    \E r \in inits :
        /\ r.pc = "playing"
        /\ \E refused \in Refusals :
               audios' = [a \in DOMAIN audios |->
                             IF refused /\ a \in r.played
                             THEN [audios[a] EXCEPT !.paused = TRUE]
                             ELSE audios[a]]
        /\ gains' = [gains EXCEPT ![r.master].gain =
                         linearRampToValueAtTime(@, GainScale,
                                                 Now(r.ctx) + FADE_TIME,
                                                 Now(r.ctx))]
        /\ isLoading' = FALSE
        /\ isInitialized' = TRUE
        /\ inits' = inits \ {r}
        /\ UNCHANGED <<lpVars, refVars, isMuted, audioState, activeThemeId,
                       currentVolumes, events, props>>

(***************************************************************************)
(* cleanupAudio (part_000:123-149)                                         *)
(***************************************************************************)
RECURSIVE stopAll(_, _)
stopAll(W, pids) ==
    IF pids = {} THEN W
    ELSE LET pid == CHOOSE x \in pids : TRUE
         IN  stopAll(disconnect(stop(W, pid), pid), pids \ {pid})

CleanupCall ==
    /\ calls < MaxOps
    /\ calls' = calls + 1
    /\ last' = [op |-> "cleanup", arg |-> "", returned |-> FALSE,
                 master |-> Heard]
    /\ SetWorld(stopAll(World, Range(layerPlayersRef)))
    /\ layerPlayersRef' = EmptyMap
    /\ layerAudioBuffersRef' = EmptyMap
    /\ audios' = [a \in DOMAIN audios |->
                     IF a \in Range(themeAudioElementsRef)
                     THEN [audios[a] EXCEPT !.paused = TRUE, !.src = FALSE]
                     ELSE audios[a]]
    /\ themeAudioElementsRef' = EmptyMap
    /\ themeGainNodesRef' = EmptyMap
    /\ ctxs' = IF audioContextRef # 0 /\ ctxs[audioContextRef].state # "closed"
               THEN [ctxs EXCEPT ![audioContextRef].closing = TRUE]
               ELSE ctxs
    /\ audioContextRef' = 0
    /\ masterGainRef' = 0
    /\ isInitialized' = FALSE
    /\ UNCHANGED <<wall, isLoading, isMuted, audioState, activeThemeId,
                   currentVolumes, gains, inits, events, props>>

\* context.close() settles: the context is closed, the reaction of line 142
\* and the statechange event are queued
CloseSettles ==
    \E c \in DOMAIN ctxs :
        /\ ctxs[c].closing
        /\ ctxs[c].state # "closed"
        /\ ctxs' = [ctxs EXCEPT ![c].state = "closed"]
        /\ events' = events \cup {[kind |-> "closed", ctx |-> c],
                                  [kind |-> "statechange", ctx |-> c]}
        /\ UNCHANGED <<wall, timers, players, segs, calls, last, refVars,
                       stateVars, gains, audios, inits, props>>

\* a queued reaction runs: setAudioState(AudioState.Closed) of line 143, or
\* the onstatechange handler of line 186, which stores context.state itself
DeliverEvent ==
    \E e \in events :
        /\ events' = events \ {e}
        /\ audioState' = IF e.kind = "closed" THEN "Closed"
                         ELSE ctxs[e.ctx].state
        /\ UNCHANGED <<lpVars, refVars, isInitialized, isLoading, isMuted,
                       activeThemeId, currentVolumes, gains, audios, inits,
                       props>>

(***************************************************************************)
(* The control operations.  Each reads its refs and its React state as     *)
(* they are when it is called.                                             *)
(***************************************************************************)
\* a ramp written without cancelScheduledValues: the events scheduled before
\* it stay on the timeline
rampWithoutCancel(p, from, to, now, end) ==
    linearRampToValueAtTime(setValueAtTime(p, from, now), to, end, now)

\* the sequence every ramp of the hook is written as (e.g. part_000:163-165):
\* cancelScheduledValues(now), setValueAtTime(from, now),
\* linearRampToValueAtTime(to, end)
cancelSetRamp(p, from, to, now, end) ==
    linearRampToValueAtTime(
        setValueAtTime(cancelScheduledValues(p, now), from, now), to, end, now)

\* cancelScheduledValues(now) and setValueAtTime(v, now) (part_000:329-331)
cancelSet(p, v, now) == setValueAtTime(cancelScheduledValues(p, now), v, now)

Call(op, arg, returned) ==
    /\ calls < MaxOps
    /\ calls' = calls + 1
    /\ last' = [op |-> op, arg |-> arg, returned |-> returned,
                 master |-> Heard]

\* the gains after selectTheme has faded the old theme out (part_000:161-166)
fadeOutOld(g, old, now) ==
    IF old = 0 THEN g
    ELSE [g EXCEPT ![old].gain =
              cancelSetRamp(@, @.value, 0, now, now + FADE_TIME)]

\* a fade-in that starts from the value the new theme's gain has
fadeInFromPrior(g, new, targetVolume, now) ==
    IF new = 0 THEN g
    ELSE [g EXCEPT ![new].gain =
              cancelSetRamp(@, @.value, targetVolume, now, now + FADE_TIME)]

\* the gains after selectTheme has faded the new theme in (part_000:169-174)
fadeInNew(g, new, targetVolume, now) ==
    IF new = 0 THEN g
    ELSE [g EXCEPT ![new].gain =
              cancelSetRamp(@, 0, targetVolume, now, now + FADE_TIME)]

\* a guard of selectTheme that does not compare the theme with the active one
selectThemeReturnsNoEngine(themeId) == audioContextRef = 0

\* the guard of selectTheme (part_000:153)
selectThemeReturns(themeId) ==
    audioContextRef = 0 \/ themeId = rendered.activeThemeId

\* a selectTheme that also pauses every stream but that of the new theme
selectThemeSwitchingStreams(themeId, targetVolume) ==
    /\ Call("selectTheme", themeId, selectThemeReturns(themeId))
    /\ IF selectThemeReturns(themeId)
       THEN UNCHANGED <<gains, activeThemeId, audios>>
       ELSE LET now == Now(audioContextRef)
            IN  /\ gains' = fadeInNew(
                                fadeOutOld(gains,
                                           Get(themeGainNodesRef,
                                               rendered.activeThemeId),
                                           now),
                                Get(themeGainNodesRef, themeId), targetVolume,
                                now)
                /\ activeThemeId' = themeId
                /\ audios' = [a \in DOMAIN audios |->
                                 [audios[a] EXCEPT
                                     !.paused = (audios[a].theme # themeId)]]
    /\ UNCHANGED <<wall, ctxs, timers, players, segs, refVars, isInitialized,
                   isLoading, isMuted, audioState, currentVolumes, inits,
                   events, props>>

\* selectTheme(themeId, targetVolume)
selectTheme(themeId, targetVolume) ==
    /\ Call("selectTheme", themeId, selectThemeReturns(themeId))
    /\ IF selectThemeReturns(themeId)
       THEN UNCHANGED <<gains, activeThemeId>>
       ELSE LET now == Now(audioContextRef)
            IN  /\ gains' = fadeInNew(
                                fadeOutOld(gains,
                                           Get(themeGainNodesRef,
                                               rendered.activeThemeId),
                                           now),
                                Get(themeGainNodesRef, themeId), targetVolume,
                                now)
                /\ activeThemeId' = themeId
    /\ UNCHANGED <<wall, ctxs, timers, players, segs, refVars, isInitialized,
                   isLoading, isMuted, audioState, currentVolumes, audios,
                   inits, events, props>>

\* the guard of setLayerVolume (part_000:270)
setLayerVolumeReturns(layerId) ==
    audioContextRef = 0 \/ Get(layerPlayersRef, layerId) = 0

\* a setLayerVolume that ramps the gain of every layer player
setLayerVolumeEvery(layerId, volume, duration) ==
    /\ Call("setLayerVolume", layerId, setLayerVolumeReturns(layerId))
    /\ IF setLayerVolumeReturns(layerId)
       THEN UNCHANGED <<players, currentVolumes>>
       ELSE LET now == Now(audioContextRef)
            IN  /\ players' = [pid \in DOMAIN players |->
                                  [players[pid] EXCEPT !.gain =
                                      cancelSetRamp(@, @.value, volume, now,
                                                    now + duration)]]
                /\ currentVolumes' = Put(currentVolumes, layerId, volume)
    /\ UNCHANGED <<wall, ctxs, timers, segs, refVars, isInitialized, isLoading,
                   isMuted, audioState, activeThemeId, heapVars>>

\* setLayerVolume(layerId, volume, duration)
setLayerVolume(layerId, volume, duration) ==
    /\ Call("setLayerVolume", layerId, setLayerVolumeReturns(layerId))
    /\ IF setLayerVolumeReturns(layerId)
       THEN UNCHANGED <<players, currentVolumes>>
       ELSE LET now == Now(audioContextRef)
                pid == layerPlayersRef[layerId]
            IN  /\ players' = [players EXCEPT ![pid].gain =
                                  cancelSetRamp(@, @.value, volume, now,
                                                now + duration)]
                /\ currentVolumes' = Put(currentVolumes, layerId, volume)
    /\ UNCHANGED <<wall, ctxs, timers, segs, refVars, isInitialized, isLoading,
                   isMuted, audioState, activeThemeId, heapVars>>

\* the theme setMainVolume works on; "" stands for an omitted themeIdToTarget
targetId(themeIdToTarget) ==
    IF themeIdToTarget # "" THEN themeIdToTarget
    ELSE rendered.activeThemeId

\* the guard of setMainVolume (part_000:282)
setMainVolumeReturns(themeIdToTarget) ==
    audioContextRef = 0
        \/ Get(themeGainNodesRef, targetId(themeIdToTarget)) = 0

\* setMainVolume(volume, duration, themeIdToTarget)
setMainVolume(volume, duration, themeIdToTarget) ==
    /\ Call("setMainVolume", themeIdToTarget,
            setMainVolumeReturns(themeIdToTarget))
    /\ LET g == Get(themeGainNodesRef, targetId(themeIdToTarget))
       IN  IF setMainVolumeReturns(themeIdToTarget)
           THEN UNCHANGED gains
           ELSE LET now == Now(audioContextRef)
                IN  gains' = [gains EXCEPT ![g].gain =
                                 cancelSetRamp(@, @.value, volume, now,
                                               now + duration)]
    /\ UNCHANGED <<wall, ctxs, timers, players, segs, refVars, stateVars,
                   audios, inits, events, props>>

\* the guard of toggleMute and of resetAndPlayTheme (part_000:293 and 313)
noEngine == audioContextRef = 0 \/ masterGainRef = 0

\* the gain toggleMute ramps the master to (part_000:298)
muteTarget(newMuteState) == IF newMuteState THEN 0 ELSE GainScale

\* a toggleMute that flips the muted flag before it looks for the engine
toggleMuteFlagFirst ==
    /\ Call("toggleMute", "", noEngine)
    /\ isMuted' = ~rendered.isMuted
    /\ IF noEngine
       THEN UNCHANGED gains
       ELSE LET now == Now(audioContextRef)
            IN  gains' = [gains EXCEPT ![masterGainRef].gain =
                             cancelSetRamp(@, @.value,
                                           muteTarget(~rendered.isMuted), now,
                                           now + FADE_TIME \div 2)]
    /\ UNCHANGED <<wall, ctxs, timers, players, segs, refVars, isInitialized,
                   isLoading, audioState, activeThemeId, currentVolumes,
                   audios, inits, events, props>>

\* toggleMute()
toggleMute ==
    /\ Call("toggleMute", "", noEngine)
    /\ IF noEngine
       THEN UNCHANGED <<gains, isMuted>>
       ELSE LET now == Now(audioContextRef)
                newMuteState == ~rendered.isMuted
            IN  /\ isMuted' = newMuteState
                /\ gains' = [gains EXCEPT ![masterGainRef].gain =
                                 cancelSetRamp(@, @.value,
                                               muteTarget(newMuteState), now,
                                               now + FADE_TIME \div 2)]
    /\ UNCHANGED <<wall, ctxs, timers, players, segs, refVars, isInitialized,
                   isLoading, audioState, activeThemeId, currentVolumes,
                   audios, inits, events, props>>

\* a continuation the hook would run as soon as it has returned
continuationDueAtOnce(wallNow) == wallNow

\* setTimeout(..., fadeOutDuration * 1000) (part_000:324, 349), called at the
\* instant wallNow of the timer clock
continuationDue(wallNow) == wallNow + fadeOutDuration

\* resetAndPlayTheme(newThemeAudioId, newLayers, newMainVolume,
\* newLayerVolumes), up to its setTimeout: the master is faded out and the
\* continuation is queued with the context and master gain it closes over
resetAndPlayTheme(cfg) ==
    /\ Call("resetAndPlayTheme", cfg.newThemeAudioId, noEngine)
    /\ IF noEngine
       THEN UNCHANGED <<gains, timers>>
       ELSE LET now == Now(audioContextRef)
            IN  /\ gains' = [gains EXCEPT ![masterGainRef].gain =
                                 cancelSetRamp(@, @.value, 0, now,
                                               now + fadeOutDuration)]
                /\ timers' = Append(timers,
                       [id |-> FreshTimer(World, 0), kind |-> "reset",
                        owner |-> 0, set |-> wall,
                        due |-> continuationDue(wall),
                        ctx |-> audioContextRef, master |-> masterGainRef,
                        cfg |-> cfg])
    /\ UNCHANGED <<wall, ctxs, players, segs, refVars, stateVars, audios,
                   inits, events, props>>

\* a continuation that gives every theme the new main volume
themeTargetEvery(cfg, th) == cfg.newMainVolume

\* the gain the continuation gives theme th (part_000:330)
themeTarget(cfg, th) ==
    IF th = cfg.newThemeAudioId THEN cfg.newMainVolume ELSE 0

\* the gain the continuation gives layer l (part_000:337); 0.5 when the layer
\* is listed without a volume
layerTarget(cfg, l) ==
    IF l \in cfg.newLayers
    THEN IF l \in DOMAIN cfg.newLayerVolumes THEN cfg.newLayerVolumes[l]
         ELSE Vol(5)
    ELSE 0

\* { ...prev, ...newLayerVolumes } (part_000:342)
Merge(prev, new) ==
    [k \in DOMAIN prev \cup DOMAIN new |->
        IF k \in DOMAIN new THEN new[k] ELSE prev[k]]

\* the key under which a map of references holds the index i
KeyOf(m, i) == CHOOSE k \in DOMAIN m : m[k] = i

\* the continuation of resetAndPlayTheme (part_000:324-348), run by its timer
ResetFires ==
    \E i \in DOMAIN timers : LET t == timers[i] IN
        /\ t.kind = "reset"
        /\ Fires(i)
        /\ timers' = RemoveAt(timers, i)
        /\ last' = [op |-> "resetFires", arg |-> "",
                     returned |-> ctxs[t.ctx].state = "closed",
                     master |-> Heard]
        /\ IF ctxs[t.ctx].state = "closed"
           THEN UNCHANGED <<gains, players, currentVolumes, activeThemeId>>
           ELSE LET now == Now(t.ctx)
                    themeNodes == Range(themeGainNodesRef)
                    layerNodes == Range(layerPlayersRef)
                IN  /\ gains' =
                           [g \in DOMAIN gains |->
                               IF g \in themeNodes
                               THEN [gains[g] EXCEPT !.gain =
                                        cancelSet(@,
                                            themeTarget(t.cfg,
                                                KeyOf(themeGainNodesRef, g)),
                                            now)]
                               ELSE IF g = t.master
                               THEN [gains[g] EXCEPT !.gain =
                                        linearRampToValueAtTime(@, GainScale,
                                            now + fadeInDuration, now)]
                               ELSE gains[g]]
                    /\ players' =
                           [pid \in DOMAIN players |->
                               IF pid \in layerNodes
                               THEN [players[pid] EXCEPT !.gain =
                                        cancelSet(@,
                                            layerTarget(t.cfg,
                                                KeyOf(layerPlayersRef, pid)),
                                            now)]
                               ELSE players[pid]]
                    /\ currentVolumes' =
                           Merge(currentVolumes, t.cfg.newLayerVolumes)
                    /\ activeThemeId' = t.cfg.newThemeAudioId
        /\ UNCHANGED <<wall, ctxs, segs, calls, refVars, isInitialized,
                       isLoading, isMuted, audioState, audios, inits, events,
                       props>>

(***************************************************************************)
(* The host: it may suspend a running context and resume it later.         *)
(***************************************************************************)
HostSuspends ==
    \E c \in DOMAIN ctxs :
        /\ ctxs[c].state = "running"
        /\ ~ctxs[c].closing
        /\ Call("hostSuspend", "", FALSE)
        /\ ctxs' = [ctxs EXCEPT ![c].state = "suspended"]
        /\ events' = events \cup {[kind |-> "statechange", ctx |-> c]}
        /\ UNCHANGED <<wall, timers, players, segs, refVars, stateVars, gains,
                       audios, inits, props>>

HostResumes ==
    \E c \in DOMAIN ctxs :
        /\ ctxs[c].state = "suspended"
        /\ ~ctxs[c].closing
        /\ \A r \in inits : ~(r.pc = "resume" /\ r.ctx = c)
        /\ Call("hostResume", "", FALSE)
        /\ ctxs' = [ctxs EXCEPT ![c].state = "running"]
        /\ events' = events \cup {[kind |-> "statechange", ctx |-> c]}
        /\ UNCHANGED <<wall, timers, players, segs, refVars, stateVars, gains,
                       audios, inits, props>>

(***************************************************************************)
(* The clocks.  The timer clock advances by d; the currentTime of every    *)
(* running context advances with it, and the audio thread recomputes the   *)
(* gains that belong to it.                                                *)
(***************************************************************************)
AdvanceCtx(c, d) ==
    IF c.state = "running" THEN [c EXCEPT !.currentTime = @ + d] ELSE c

AdvancePlayers(cs) ==
    [i \in DOMAIN players |->
        [players[i] EXCEPT !.gain = Render(@, cs[players[i].ctx].currentTime)]]

AdvanceGains(cs) ==
    [i \in DOMAIN gains |->
        [gains[i] EXCEPT !.gain = Render(@, cs[gains[i].ctx].currentTime)]]

(***************************************************************************)
(* The player on its own: one LoopingPlayer on a running context, with the *)
(* environment calling start() and stop() and the timer firing on time or  *)
(* late.                                                                   *)
(***************************************************************************)
LPDurations == ShortBuffer..(OVERLAP_DURATION + 3)

LPInit ==
    /\ wall = 0
    /\ ctxs = <<[state |-> "running", currentTime |-> 0, closing |-> FALSE]>>
    /\ timers = <<>>
    /\ \E d \in LPDurations : players = <<NewPlayer(1, d, 0, 0)>>
    /\ segs = << <<>> >>
    /\ calls = 0
    /\ last = [op |-> "none", arg |-> "", returned |-> FALSE, master |-> 0]
    /\ HookInit([initialThemeId |-> ThemeSeq[1], initialVolumes |-> EmptyMap,
                 initialMainVolume |-> 0])
    /\ app = NoApp

LPStart ==
    /\ calls < MaxCalls
    /\ calls' = calls + 1
    /\ last' = [op |-> "start", arg |-> "",
                 returned |-> startRejected(players[1]), master |-> Heard]
    /\ SetWorld(start(World, 1, ctxs[1].currentTime, wall))
    /\ UNCHANGED <<wall, ctxs>>

LPStop ==
    /\ calls < MaxCalls
    /\ calls' = calls + 1
    /\ last' = [op |-> "stop", arg |-> "", returned |-> FALSE,
                 master |-> Heard]
    /\ SetWorld(stop(World, 1))
    /\ UNCHANGED <<wall, ctxs>>

\* a scheduler timer that is due fires: the callback is scheduler()
LPWake ==
    \E i \in DOMAIN timers : LET t == timers[i] IN
        /\ t.kind = "scheduler"
        /\ Fires(i)
        /\ SetWorld(scheduler([World EXCEPT !.timers = RemoveAt(@, i)],
                              t.owner,
                              ctxs[players[t.owner].ctx].currentTime, wall))
        /\ UNCHANGED <<wall, ctxs, calls, last>>

LPTick ==
    /\ wall < MaxWall
    /\ wall' = wall + 1
    /\ ctxs' = [i \in DOMAIN ctxs |-> AdvanceCtx(ctxs[i], 1)]
    /\ players' = AdvancePlayers(ctxs')
    /\ UNCHANGED <<timers, segs, calls, last>>

\* the hook and its engine play no part
LPFrame == UNCHANGED <<refVars, stateVars, heapVars, rendered, app>>

LPNext ==
    \/ LPStart /\ LPFrame
    \/ LPStop /\ LPFrame
    \/ LPWake /\ LPFrame
    \/ LPTick /\ LPFrame

SpecPlayer == LPInit /\ [][LPNext]_vars

(***************************************************************************)
(* The engine: the hook from its first render, with the environment        *)
(* calling its operations, promises settling, timers firing and the clocks *)
(* advancing.  The specifications below differ in the calls the            *)
(* environment makes.                                                      *)
(***************************************************************************)
PropsSet ==
    {[initialThemeId |-> th,
      initialVolumes |-> [rain |-> Vol(2), forest |-> 0],
      initialMainVolume |-> Vol(7)] : th \in Themes}

\* the configurations resetAndPlayTheme is called with
ResetConfigs ==
    {[newThemeAudioId |-> ThemeSeq[2], newLayers |-> {"forest"},
      newMainVolume |-> Vol(7), newLayerVolumes |-> [forest |-> Vol(5)]],
     [newThemeAudioId |-> ThemeSeq[1], newLayers |-> {"rain", "forest"},
      newMainVolume |-> Vol(5), newLayerVolumes |-> [rain |-> GainScale]]}

Init ==
    /\ wall = 0
    /\ ctxs = <<>>
    /\ timers = <<>>
    /\ players = <<>>
    /\ segs = <<>>
    /\ calls = 0
    /\ last = [op |-> "none", arg |-> "", returned |-> FALSE, master |-> 0]
    /\ \E pr \in PropsSet : HookInit(pr)
    /\ app = NoApp

\* React renders the hook again when the task that changed its state ends:
\* the callbacks are created anew over the state as it is then.  The hook
\* writes nothing of the component that mounts it.
Rerender ==
    /\ rendered' = Snapshot(isInitialized', isMuted', activeThemeId',
                              currentVolumes')
    /\ UNCHANGED app

\* no wake-up is due and no reaction is queued.  A wake-up that is due and a
\* queued reaction run before the next call, before the next promise settles
\* and before the clocks advance: the timers are armed 25 ms ahead, and the
\* clocks of these specifications advance in steps of EngineStep
Quiet ==
    /\ events = {}
    /\ \A i \in DOMAIN timers :
           timers[i].kind = "scheduler" => timers[i].due > wall

\* the clocks advance by EngineStep, up to the horizon
Tick(horizon) ==
    /\ wall + EngineStep <= horizon
    /\ Quiet
    /\ wall' = wall + EngineStep
    /\ ctxs' = [i \in DOMAIN ctxs |-> AdvanceCtx(ctxs[i], EngineStep)]
    /\ players' = AdvancePlayers(ctxs')
    /\ gains' = AdvanceGains(ctxs')
    /\ UNCHANGED <<timers, segs, calls, last, refVars, stateVars, audios,
                   inits, events, props, rendered, app>>

Wake == LPWake /\ LPFrame

\* the user starts the engine, on a context that is created running
StartEngine == calls = 0 /\ InitializeCall({"running"})

\* time as the user of a started engine sees it
ReadyTick(horizon) == isInitialized /\ Tick(horizon)

\* the volumes and durations setLayerVolume is called with
VolumeRequests == {<<Vol(5), FADE_TIME>>, <<0, defaultDuration>>}

\* a call of the volume controls
MixCall == Quiet /\ calls < MaxMixCalls

\* The volume controls of a started engine.
MixNext ==
    \/ /\ StartEngine
       /\ Rerender
    \/ /\ LoadSettles({DecodedBuffer})
       /\ Rerender
    \/ /\ PlaySettles({FALSE})
       /\ Rerender
    \/ /\ MixCall /\ \E th \in Themes : selectTheme(th, Vol(7))
       /\ Rerender
    \/ /\ MixCall /\ \E l \in Layers, r \in VolumeRequests :
                          setLayerVolume(l, r[1], r[2])
       /\ Rerender
    \/ /\ MixCall /\ \E th \in {""} \cup Themes :
                          setMainVolume(Vol(5), FADE_TIME, th)
       /\ Rerender
    \/ Wake
    \/ ReadyTick(MaxEngineWall)

SpecMix == Init /\ [][MixNext]_vars

\* Mute and reset on a started engine.
ResetNext ==
    \/ /\ StartEngine
       /\ Rerender
    \/ /\ LoadSettles({DecodedBuffer})
       /\ Rerender
    \/ /\ PlaySettles({FALSE})
       /\ Rerender
    \/ /\ Quiet /\ toggleMute
       /\ Rerender
    \/ /\ Quiet /\ \E cfg \in ResetConfigs : resetAndPlayTheme(cfg)
       /\ Rerender
    \/ /\ Quiet /\ ResetFires
       /\ Rerender
    \/ Wake
    \/ ReadyTick(MaxResetWall)

SpecReset == Init /\ [][ResetNext]_vars

\* a call of a control App shows only once the engine is started
\* (App.tsx:355, 466)
ReadyCall == Quiet /\ isInitialized

\* The mute button and the reset of a started engine.
MuteNext ==
    \/ /\ StartEngine
       /\ Rerender
    \/ /\ LoadSettles({DecodedBuffer})
       /\ Rerender
    \/ /\ PlaySettles({FALSE})
       /\ Rerender
    \/ /\ ReadyCall /\ toggleMute
       /\ Rerender
    \/ /\ ReadyCall /\ \E cfg \in ResetConfigs : resetAndPlayTheme(cfg)
       /\ Rerender
    \/ /\ Quiet /\ ResetFires
       /\ Rerender
    \/ Wake
    \/ ReadyTick(MaxResetWall)

SpecMute == Init /\ [][MuteNext]_vars

\* a call of the life cycle specifications
LifeCall == Quiet /\ calls < MaxLifeCalls

\* The life cycle: the engine is started and torn down, with every outcome
\* of its promises.
LifeNext ==
    \/ /\ LifeCall /\ InitializeCall({"suspended", "running"})
       /\ Rerender
    \/ /\ Quiet /\ ResumeSettles
       /\ Rerender
    \/ /\ Quiet /\ LoadSettles({DecodedBuffer, createSilentAudioBuffer})
       /\ Rerender
    \/ /\ Quiet /\ PlaySettles(BOOLEAN)
       /\ Rerender
    \/ /\ LifeCall /\ CleanupCall
       /\ Rerender
    \/ /\ Quiet /\ CloseSettles
       /\ Rerender
    \/ /\ DeliverEvent
       /\ Rerender
    \/ Wake
    \/ Tick(MaxLifeWall)

SpecLife == Init /\ [][LifeNext]_vars

\* The controls around the life cycle: they are called before the engine is
\* started, while it loads, when it is ready and after it is torn down.
TeardownNext ==
    \/ /\ LifeCall /\ InitializeCall({"running"})
       /\ Rerender
    \/ /\ Quiet /\ LoadSettles({DecodedBuffer})
       /\ Rerender
    \/ /\ Quiet /\ PlaySettles({FALSE})
       /\ Rerender
    \/ /\ LifeCall /\ CleanupCall
       /\ Rerender
    \/ /\ Quiet /\ CloseSettles
       /\ Rerender
    \/ /\ DeliverEvent
       /\ Rerender
    \/ /\ LifeCall /\ selectTheme(ThemeSeq[2], Vol(7))
       /\ Rerender
    \/ /\ LifeCall /\ setLayerVolume(LayerSeq[1], Vol(5), defaultDuration)
       /\ Rerender
    \/ /\ LifeCall /\ setMainVolume(Vol(5), defaultDuration, "")
       /\ Rerender
    \/ /\ LifeCall /\ toggleMute
       /\ Rerender
    \/ /\ LifeCall /\ resetAndPlayTheme(CHOOSE cfg \in ResetConfigs :
                                            cfg.newThemeAudioId = ThemeSeq[2])
       /\ Rerender
    \/ /\ Quiet /\ ResetFires
       /\ Rerender
    \/ Wake
    \/ Tick(MaxLifeWall)

SpecTeardown == Init /\ [][TeardownNext]_vars

\* the arguments an event handler may pass: a theme or layer id the engine
\* does not know, and volumes below 0 and above 1
ThemeArgs == Themes \cup {"unknown"}

LayerArgs == Layers \cup {"unknown"}

VolumeArgs == {Vol(5), Vol(12), 0 - Vol(2)}

\* the callbacks in use are those of the latest state: no render is pending
Rendered ==
    rendered = Snapshot(isInitialized, isMuted, activeThemeId, currentVolumes)

\* a call made by an event handler, which may go on to make another one
\* before it ends: the callbacks stay those of the last render
HandlerCall ==
    /\ Quiet
    /\ isInitialized
    /\ calls < MaxHandlerCalls
    /\ UNCHANGED <<rendered, app>>

\* the event handler ends and React renders the hook again
HandlerEnds ==
    /\ ~Rendered
    /\ rendered' = Snapshot(isInitialized, isMuted, activeThemeId,
                            currentVolumes)
    /\ UNCHANGED <<lpVars, refVars, stateVars, heapVars, app>>

\* The event handlers of a started engine: a handler makes one call or
\* several, with any arguments.
HandlerNext ==
    \/ /\ StartEngine
       /\ Rerender
    \/ /\ LoadSettles({DecodedBuffer})
       /\ Rerender
    \/ /\ PlaySettles({FALSE})
       /\ Rerender
    \/ /\ HandlerCall
       /\ \E th \in ThemeArgs : selectTheme(th, Vol(7))
    \/ /\ HandlerCall
       /\ \E l \in LayerArgs, v \in VolumeArgs :
              setLayerVolume(l, v, defaultDuration)
    \/ /\ HandlerCall
       /\ \E th \in {""} \cup ThemeArgs, v \in VolumeArgs :
              setMainVolume(v, defaultDuration, th)
    \/ HandlerEnds
    \/ Wake
    \/ Rendered /\ ReadyTick(MaxHandlerWall)

SpecHandler == Init /\ [][HandlerNext]_vars

(***************************************************************************)
(* App (src/App.tsx), the component that mounts the hook.  It keeps the    *)
(* mix in its React state, writes it to localStorage after every render    *)
(* of a started engine and reads it back when the page is loaded.  An      *)
(* event handler runs to its end before anything else happens: it sets     *)
(* the new state and calls the hook with the state of the last render.     *)
(* Layers are not added to or removed from the catalogue themes here, so   *)
(* customThemes stays the catalogue.                                       *)
(***************************************************************************)
CUSTOM_THEME_ID == "custom"

mainVolumeDuration == 4
\* App.tsx:203, setMainVolume(volume, 0.1, audioThemeId)

AppThemes == Themes \cup {CUSTOM_THEME_ID}

\* THEMES[.].layers, the layers of LayerSeq only (constants.ts:28, 37)
ThemeLayers(th) ==
    IF th = "floating-dreaming" THEN <<"rain", "forest">> ELSE <<>>

\* THEMES[.].defaultVolumes, for the layers of LayerSeq (constants.ts:30, 39)
defaultVolumes(th) ==
    IF th = "floating-dreaming" THEN [rain |-> 0, forest |-> Vol(3)]
    ELSE EmptyMap

\* THEMES[.].defaultThemeVolume and the 0.7 of the custom theme
defaultThemeVolume == Vol(7)

\* JSON.stringify and JSON.parse of a volume: the number is written as its
\* decimal digits and read back from them
stringifyNumber(v) == <<v \div GainScale, v % GainScale>>

parseNumber(t) == t[1] * GainScale + t[2]

stringifyVolumes(m) == [k \in DOMAIN m |-> stringifyNumber(m[k])]

parseVolumes(t) == [k \in DOMAIN t |-> parseNumber(t[k])]

\* the useState initializers (App.tsx:52-81) over the localStorage `storage`,
\* in the session-th load of the page: getInitialState(key, defaultValue)
\* gives the parsed item, or the default when there is none
Mount(storage, session) ==
    [session |-> session,
     activeThemeId |->
         IF "active_theme_id" \in DOMAIN storage
         THEN storage["active_theme_id"] ELSE ThemeSeq[1],
     customThemeConfig |->
         IF "custom_config" \in DOMAIN storage
         THEN storage["custom_config"]
         ELSE [baseThemeId |-> "", layers |-> <<>>],
     mainThemeVolumes |->
         IF "main_theme_volumes" \in DOMAIN storage
         THEN parseVolumes(storage["main_theme_volumes"])
         ELSE [th \in AppThemes |-> defaultThemeVolume],
     themeVolumes |->
         IF "theme_volumes" \in DOMAIN storage
         THEN [th \in DOMAIN storage["theme_volumes"] |->
                  parseVolumes(storage["theme_volumes"][th])]
         ELSE [th \in Themes |-> defaultVolumes(th)],
     storage |-> storage, todo |-> <<>>, dirty |-> FALSE]

\* the items the persistence effects write (App.tsx:130-148)
Persisted(a) ==
    [k \in {"active_theme_id", "custom_config", "main_theme_volumes",
            "theme_volumes"} |->
        CASE k = "active_theme_id" -> a.activeThemeId
          [] k = "custom_config" -> a.customThemeConfig
          [] k = "main_theme_volumes" -> stringifyVolumes(a.mainThemeVolumes)
          [] OTHER -> [th \in DOMAIN a.themeVolumes |->
                          stringifyVolumes(a.themeVolumes[th])]]

\* activeTheme.layers (App.tsx:84-98)
activeLayers(a) ==
    IF a.activeThemeId = CUSTOM_THEME_ID THEN a.customThemeConfig.layers
    ELSE ThemeLayers(a.activeThemeId)

\* themeVolumes[id] || {}
volumesOf(a, id) ==
    IF id \in DOMAIN a.themeVolumes THEN a.themeVolumes[id] ELSE EmptyMap

\* allInitialVolumes (App.tsx:102-110)
allInitialVolumes(a) ==
    [l \in Layers |->
        IF l \in Range(activeLayers(a))
        THEN Get(volumesOf(a, a.activeThemeId), l)
        ELSE 0]

\* the props App passes to the hook (App.tsx:123-129)
hookProps(a) ==
    [initialThemeId |->
         IF a.activeThemeId = CUSTOM_THEME_ID
         THEN IF a.customThemeConfig.baseThemeId # ""
              THEN a.customThemeConfig.baseThemeId ELSE ThemeSeq[1]
         ELSE a.activeThemeId,
     initialVolumes |-> allInitialVolumes(a),
     initialMainVolume |-> a.mainThemeVolumes[a.activeThemeId]]

\* a call of the hook an event handler has still to make
HookCall(op, a1, a2, a3) == [op |-> op, a1 |-> a1, a2 |-> a2, a3 |-> a3]

\* the state an event handler leaves and the calls it makes
Handled(a, next, todo) ==
    [a EXCEPT !.activeThemeId = next.activeThemeId,
              !.customThemeConfig = next.customThemeConfig,
              !.mainThemeVolumes = next.mainThemeVolumes,
              !.themeVolumes = next.themeVolumes,
              !.todo = todo, !.dirty = TRUE]

\* the layers of the theme object the selector passes (App.tsx:310-316):
\* those of the catalogue, none for the custom theme
selectorLayers(id) == IF id = CUSTOM_THEME_ID THEN <<>> ELSE ThemeLayers(id)

\* setLayerVolume(layerId, volumes[layerId] ?? fallback, FADE_TIME) for each
\* layer of the sequence
layerCalls(ls, volumes, fallback) ==
    [i \in 1..Len(ls) |->
        HookCall("setLayerVolume", ls[i],
                 IF ls[i] \in DOMAIN volumes THEN volumes[ls[i]]
                 ELSE fallback,
                 FADE_TIME)]

\* handleThemeChange(theme) (App.tsx:166-197), past its two guards
handleThemeChange(a, id) ==
    LET fading == SelectSeq(activeLayers(a),
                            LAMBDA l : l \notin Range(selectorLayers(id)))
        audioThemeToPlay ==
            IF id = CUSTOM_THEME_ID THEN a.customThemeConfig.baseThemeId
            ELSE id
        newThemeVolumes ==
            IF id \in DOMAIN a.themeVolumes THEN a.themeVolumes[id]
            ELSE IF id \in Themes THEN defaultVolumes(id) ELSE EmptyMap
    IN  Handled(a, [a EXCEPT !.activeThemeId = id],
                layerCalls(fading, EmptyMap, 0)
                    \o <<HookCall("selectTheme", audioThemeToPlay,
                                  a.mainThemeVolumes[id], 0)>>
                    \o layerCalls(selectorLayers(id), newThemeVolumes,
                                  Vol(5)))

\* handleMainVolumeChange(volume) (App.tsx:199-208)
handleMainVolumeChange(a, volume) ==
    LET audioThemeId ==
            IF a.activeThemeId = CUSTOM_THEME_ID
            THEN a.customThemeConfig.baseThemeId ELSE a.activeThemeId
    IN  Handled(a, [a EXCEPT !.mainThemeVolumes[a.activeThemeId] = volume],
                IF audioThemeId # ""
                THEN <<HookCall("setMainVolume", volume, mainVolumeDuration,
                                audioThemeId)>>
                ELSE <<>>)

\* handleVolumeChange(id, volume) (App.tsx:210-222)
handleVolumeChange(a, id, volume) ==
    Handled(a, [a EXCEPT !.themeVolumes =
                    Put(@, a.activeThemeId,
                        Put(volumesOf(a, a.activeThemeId), id, volume))],
            <<HookCall("setLayerVolume", id, volume, defaultDuration)>>)

\* handleSaveCustomTheme(config) (App.tsx:268-302), past its guard
handleSaveCustomTheme(a, config) ==
    Handled(a, [a EXCEPT !.themeVolumes =
                    Put(@, CUSTOM_THEME_ID, config.volumes),
                         !.customThemeConfig =
                    [baseThemeId |-> config.baseThemeId,
                     layers |-> config.layers],
                         !.activeThemeId = CUSTOM_THEME_ID],
            <<HookCall("resetAndPlayTheme",
                       [newThemeAudioId |-> config.baseThemeId,
                        newLayers |-> Range(config.layers),
                        newMainVolume |-> a.mainThemeVolumes[CUSTOM_THEME_ID],
                        newLayerVolumes |-> config.volumes], 0, 0)>>)

\* the configurations the custom theme editor saves
CustomConfigs ==
    {[baseThemeId |-> ThemeSeq[2], layers |-> <<"rain">>,
      volumes |-> [rain |-> Vol(5)]],
     [baseThemeId |-> ThemeSeq[1], layers |-> <<"forest">>,
      volumes |-> [forest |-> Vol(2)]]}

\* what the user may do with the controls App shows (App.tsx:418-447): pick
\* another theme, move the main slider, move the slider of a layer of the
\* active theme, save a custom theme
Handlers(a) ==
    {handleThemeChange(a, id) :
        id \in {t \in AppThemes :
                   /\ t # a.activeThemeId
                   /\ ~(t = CUSTOM_THEME_ID
                           /\ a.customThemeConfig.baseThemeId = "")}}
    \cup {handleMainVolumeChange(a, Vol(5))}
    \cup {handleVolumeChange(a, l, Vol(5)) : l \in Range(activeLayers(a))}
    \cup {handleSaveCustomTheme(a, config) : config \in CustomConfigs}

\* the handler has returned and React has rendered
AppIdle == app.todo = <<>> /\ ~app.dirty

\* the page is loaded for the first time: localStorage is empty
AppInit ==
    /\ wall = 0
    /\ ctxs = <<>>
    /\ timers = <<>>
    /\ players = <<>>
    /\ segs = <<>>
    /\ calls = 0
    /\ last = [op |-> "none", arg |-> "", returned |-> FALSE, master |-> 0]
    /\ app = Mount(EmptyMap, 1)
    /\ HookInit(hookProps(Mount(EmptyMap, 1)))

\* the user presses Start: initializeAudio (App.tsx:362-366)
AppStart == AppIdle /\ StartEngine /\ Rerender

\* the engine is ready: React renders, and the persistence effects, which
\* wait for isInitialized, write the state for the first time
AppReady ==
    /\ PlaySettles({FALSE})
    /\ rendered' = Snapshot(isInitialized', isMuted', activeThemeId',
                              currentVolumes')
    /\ app' = [app EXCEPT !.storage = Persisted(app)]

\* the user works a control: its handler sets the new state of App and is
\* to make its calls of the hook
AppHandler ==
    /\ isInitialized
    /\ Quiet
    /\ AppIdle
    /\ \E h \in Handlers(app) :
           /\ calls + Len(h.todo) <= MaxOps
           /\ app' = h
    /\ UNCHANGED <<lpVars, refVars, stateVars, heapVars, rendered>>

\* the handler makes its next call, with the callbacks of the last render
AppCall ==
    /\ app.todo # <<>>
    /\ LET c == Head(app.todo)
       IN  \/ c.op = "selectTheme" /\ selectTheme(c.a1, c.a2)
           \/ c.op = "setLayerVolume" /\ setLayerVolume(c.a1, c.a2, c.a3)
           \/ c.op = "setMainVolume" /\ setMainVolume(c.a1, c.a2, c.a3)
           \/ c.op = "resetAndPlayTheme" /\ resetAndPlayTheme(c.a1)
    /\ app' = [app EXCEPT !.todo = Tail(@)]
    /\ UNCHANGED rendered

\* the handler has returned: React renders App and the hook over the new
\* state, the hook gets its new props and the persistence effects of the
\* started engine write the state (App.tsx:130-148)
AppRender ==
    /\ app.todo = <<>>
    /\ app.dirty
    /\ rendered' = Snapshot(isInitialized, isMuted, activeThemeId,
                              currentVolumes)
    /\ props' = hookProps(app)
    /\ app' = [app EXCEPT !.dirty = FALSE,
                          !.storage = IF isInitialized THEN Persisted(app)
                                      ELSE @]
    /\ UNCHANGED <<lpVars, refVars, stateVars, gains, audios, inits, events>>

\* the page is loaded again: the engine of the old page is gone with its
\* contexts and timers, and App is mounted over what localStorage holds
Reload ==
    /\ isInitialized
    /\ Quiet
    /\ AppIdle
    /\ app.session < MaxSessions
    /\ LET a == Mount(app.storage, app.session + 1)
           pr == hookProps(a)
       IN  /\ app' = a
           /\ props' = pr
           /\ activeThemeId' = pr.initialThemeId
           /\ currentVolumes' = pr.initialVolumes
           /\ rendered' = Snapshot(FALSE, FALSE, pr.initialThemeId,
                                     pr.initialVolumes)
    /\ wall' = 0
    /\ ctxs' = <<>>
    /\ timers' = <<>>
    /\ players' = <<>>
    /\ segs' = <<>>
    /\ calls' = 0
    /\ last' = [op |-> "reload", arg |-> "", returned |-> FALSE, master |-> 0]
    /\ audioContextRef' = 0
    /\ masterGainRef' = 0
    /\ layerPlayersRef' = EmptyMap
    /\ layerAudioBuffersRef' = EmptyMap
    /\ themeAudioElementsRef' = EmptyMap
    /\ themeGainNodesRef' = EmptyMap
    /\ isInitialized' = FALSE
    /\ isLoading' = FALSE
    /\ isMuted' = FALSE
    /\ audioState' = "Suspended"
    /\ gains' = <<>>
    /\ audios' = <<>>
    /\ inits' = {}
    /\ events' = {}

\* App and its engine over two loads of the page.
AppNext ==
    \/ AppStart
    \/ /\ LoadSettles({DecodedBuffer})
       /\ Rerender
    \/ AppReady
    \/ AppHandler
    \/ AppCall
    \/ AppRender
    \/ /\ AppIdle /\ Quiet /\ ResetFires
       /\ Rerender
    \/ Reload
    \/ Wake
    \/ AppIdle /\ ReadyTick(MaxAppWall)

SpecApp == AppInit /\ [][AppNext]_vars

(***************************************************************************)
(* Claims about the LoopingPlayer, checked under SpecPlayer.               *)
(***************************************************************************)
\* C1: within one run of a player, the start times of consecutively enqueued
\* segments differ by exactly buffer.duration - OVERLAP_DURATION, whatever
\* the number of segments a wake-up enqueues.
C1_ConstantPeriod ==
    \A pid \in DOMAIN players :
        \A i \in 1..(Len(segs[pid]) - 1) :
            segs[pid][i].run = segs[pid][i + 1].run
                => segs[pid][i + 1].time - segs[pid][i].time
                       = players[pid].duration - OVERLAP_DURATION

\* C1 witness: a late wake-up has enqueued three segments at once.
C1_Witness ==
    \E i \in 1..(Len(segs[1]) - 2) :
        /\ segs[1][i].run = segs[1][i + 2].run
        /\ segs[1][i].at = segs[1][i + 2].at
        /\ segs[1][i].time < segs[1][i + 2].time

\* C2: a player whose buffer is no longer than the overlap never schedules:
\* whatever is called, it stays idle, no segment is enqueued and no wake-up
\* timer is armed.
C2_ShortBufferIdle ==
    \A pid \in DOMAIN players :
        players[pid].duration <= OVERLAP_DURATION
            => /\ ~players[pid].isPlaying
               /\ players[pid].timerId = 0
               /\ \A i \in DOMAIN timers : timers[i].owner # pid
               /\ segs[pid] = <<>>

\* C2 witness: start() has just been called on a buffer as long as the
\* overlap.
C2_Witness ==
    /\ players[1].duration = OVERLAP_DURATION
    /\ last.op = "start"
    /\ wall >= 1

(***************************************************************************)
(* Claims about the volume controls, checked under SpecMix.                *)
(***************************************************************************)
\* a ramp is in flight on the parameter p at context time now
InFlight(p, now) ==
    /\ p.ev # <<>>
    /\ p.ev[Len(p.ev)].kind = "ramp"
    /\ p.ev[Len(p.ev)].t > now

\* the timeline of q is one linear ramp from the value from at time now to
\* the value to at time end, and holds the value to from then on
OneRamp(q, from, to, now, end) ==
    /\ \A t \in now..end :
           ValueAt(q, t) = from + ((to - from) * (t - now)) \div (end - now)
    /\ \A t \in end..(end + FADE_TIME) : ValueAt(q, t) = to

\* C3: when setLayerVolume or setMainVolume requests a ramp on a gain while
\* the ramp its previous call requested on that gain is still in flight, the
\* gain afterwards follows one ramp only, the new one, and that ramp starts
\* from the value the gain has at the time of the second call.
C3_SecondRampOnly ==
    [][/\ \A l \in Layers, r \in VolumeRequests :
              LET pid == Get(layerPlayersRef, l)
                  now == Now(audioContextRef)
              IN  (/\ last.op = "setLayerVolume" /\ last.arg = l
                   /\ ~last.returned
                   /\ ~setLayerVolumeReturns(l)
                   /\ setLayerVolume(l, r[1], r[2])
                   /\ InFlight(players[pid].gain, now))
                      => OneRamp(players'[pid].gain,
                                 ValueAt(players[pid].gain, now), r[1], now,
                                 now + r[2])
       /\ \A th \in {""} \cup Themes :
              LET g == Get(themeGainNodesRef, targetId(th))
                  now == Now(audioContextRef)
              IN  (/\ last.op = "setMainVolume"
                   /\ targetId(last.arg) = targetId(th)
                   /\ ~last.returned
                   /\ ~setMainVolumeReturns(th)
                   /\ setMainVolume(Vol(5), FADE_TIME, th)
                   /\ InFlight(gains[g].gain, now))
                      => OneRamp(gains'[g].gain, ValueAt(gains[g].gain, now),
                                 Vol(5), now, now + FADE_TIME)]_vars

\* a second ramp has been requested on a layer gain while the first, from
\* 0.2 to 0.5, was under way: it starts strictly between the two
C3_Witness ==
    /\ last.op = "setLayerVolume"
    /\ ~last.returned
    /\ \E pid \in DOMAIN players :
           LET p == players[pid].gain
               n == Len(p.ev)
           IN  /\ n >= 2
               /\ p.ev[n - 1].kind = "set"
               /\ p.ev[n - 1].t = Now(players[pid].ctx)
               /\ p.ev[n - 1].v > Vol(2)
               /\ p.ev[n - 1].v < Vol(5)
               /\ p.ev[n].v = 0

\* C5: selectTheme with the id of the theme that is already active changes
\* no gain and leaves the active theme id as it is.
C5_SameThemeNoOp ==
    [][\A th \in Themes :
           (th = activeThemeId /\ selectTheme(th, Vol(7)))
               => UNCHANGED <<gains, activeThemeId>>]_vars

\* selectTheme has returned at its guard on a started engine
C5_Witness ==
    /\ last.op = "selectTheme"
    /\ last.returned
    /\ audioContextRef # 0
    /\ isInitialized

(***************************************************************************)
(* Claims about mute and reset, checked under SpecReset.                   *)
(***************************************************************************)
\* the theme gains and the layer gains, by the node that holds them
ThemeGains == [g \in Range(themeGainNodesRef) |-> gains[g].gain]

LayerGains == [pid \in Range(layerPlayersRef) |-> players[pid].gain]

\* the pending timer i is gone after the step: its continuation has run
Ran(i) == \A j \in DOMAIN timers' : timers'[j] # timers[i]

\* C4: on a started engine whose master gain is heading for 1, toggleMute
\* called twice leaves the master gain heading for 1 again, and no toggleMute
\* changes a theme gain or a layer gain.
C4_DoubleToggle ==
    [][(isInitialized /\ ~noEngine /\ toggleMute)
           => /\ UNCHANGED <<ThemeGains, LayerGains>>
              /\ (/\ last.op = "toggleMute"
                  /\ ~last.returned
                  /\ last.master = GainScale)
                     => Settled(gains'[masterGainRef].gain) = GainScale]_vars

\* C6: resetAndPlayTheme itself changes no theme gain, no layer gain and not
\* the active theme id, and its continuation does not run before the
\* fade-out duration has passed since the call.
C6_NothingBeforeFadeOut ==
    [][/\ \A cfg \in ResetConfigs :
              resetAndPlayTheme(cfg)
                  => UNCHANGED <<ThemeGains, LayerGains, activeThemeId>>
       /\ \A i \in DOMAIN timers :
              (timers[i].kind = "reset" /\ Ran(i))
                  => wall >= timers[i].set + fadeOutDuration]_vars

\* resetAndPlayTheme has been called on a started engine whose master gain is
\* up, and its fade-out is under way
C6_Witness ==
    /\ last.op = "resetAndPlayTheme"
    /\ ~last.returned
    /\ isInitialized
    /\ gains[masterGainRef].gain.value > 0
    /\ \E i \in DOMAIN timers :
           timers[i].kind = "reset" /\ timers[i].due > wall

\* C7: when the continuation of resetAndPlayTheme runs on a context that is
\* not closed, every theme gain is the new main volume for the new theme and
\* 0 for the others, every layer gain is its new volume for a listed layer
\* that has one and 0 for a layer that is not listed, the new theme is the
\* active one, and the master gain is at 1 when the fade-in duration has
\* passed.
C7_Reassigned ==
    [][\A i \in DOMAIN timers :
           LET t == timers[i]
               now == Now(t.ctx)
           IN  (t.kind = "reset" /\ Ran(i) /\ ctxs[t.ctx].state # "closed")
                   => /\ \A th \in DOMAIN themeGainNodesRef :
                             ValueAt(gains'[themeGainNodesRef[th]].gain, now)
                                 = IF th = t.cfg.newThemeAudioId
                                   THEN t.cfg.newMainVolume ELSE 0
                      /\ \A l \in DOMAIN layerPlayersRef :
                             LET q == players'[layerPlayersRef[l]].gain
                             IN  /\ l \notin t.cfg.newLayers
                                        => ValueAt(q, now) = 0
                                 /\ (/\ l \in t.cfg.newLayers
                                     /\ l \in DOMAIN t.cfg.newLayerVolumes)
                                        => ValueAt(q, now)
                                               = t.cfg.newLayerVolumes[l]
                      /\ activeThemeId' = t.cfg.newThemeAudioId
                      /\ ValueAt(gains'[t.master].gain, now + fadeInDuration)
                             = GainScale]_vars

\* the continuation has run for the configuration with the second theme and
\* the layer forest at 0.5: rain is at 0, forest at 0.5
C7_Witness ==
    /\ last.op = "resetFires"
    /\ ~last.returned
    /\ props.initialThemeId = ThemeSeq[1]
    /\ activeThemeId = ThemeSeq[2]
    /\ Settled(players[layerPlayersRef["rain"]].gain) = 0
    /\ Settled(players[layerPlayersRef["forest"]].gain) = Vol(5)
    /\ Settled(gains[themeGainNodesRef[ThemeSeq[2]]].gain) = Vol(7)

\* C8: at the instant the continuation of resetAndPlayTheme reassigns the
\* theme and layer gains, the master gain is 0.
C8_SilentReassignment ==
    [][\A i \in DOMAIN timers :
           LET t == timers[i]
           IN  (t.kind = "reset" /\ Ran(i) /\ ctxs[t.ctx].state # "closed")
                   => ValueAt(gains[t.master].gain, Now(t.ctx)) = 0]_vars

(***************************************************************************)
(* Claims about the life cycle, checked under SpecLife and SpecTeardown.   *)
(***************************************************************************)
\* every close() that was called has settled and its reactions have run
CloseDone ==
    /\ events = {}
    /\ \A c \in DOMAIN ctxs : ctxs[c].closing => ctxs[c].state = "closed"

\* C9: once cleanup has been called, the first time or again, and the close
\* it asked for has settled, the engine state is Closed.
C9_CleanupClosed ==
    (last.op = "cleanup" /\ CloseDone) => audioState = "Closed"

\* the operations of the engine, cleanup apart
Operations ==
    {"initialize", "selectTheme", "setLayerVolume", "setMainVolume",
     "toggleMute", "resetAndPlayTheme"}

\* the engine state reads closed: AudioState.Closed, which cleanupAudio sets,
\* or the state of the closed context, which the onstatechange handler sets
ReportsClosed == audioState \in {"Closed", "closed"}

\* C10: when cleanup has run and the engine state is Closed, the next
\* operation changes nothing of the engine: no reference, no state, no
\* context, no gain, no element, no player and no timer.
C10_ClosedTerminal ==
    [][(/\ last.op = "cleanup"
        /\ ReportsClosed
        /\ calls' = calls + 1
        /\ last'.op \in Operations)
           => UNCHANGED <<refVars, stateVars, ctxs, gains, audios, players,
                          timers, inits>>]_vars

(***************************************************************************)
(* Claims about initializeAudio, checked under SpecLife.                   *)
(***************************************************************************)
\* the step is a call of initializeAudio
InitializeStep == calls' = calls + 1 /\ last'.op = "initialize"

\* C11: a call of initialize made while the engine is Loading or Ready is a
\* no-op: it creates no audio context, no gain, no element and no player, and
\* changes no reference of the hook.
C11_InitializeGuarded ==
    [][((isLoading \/ isInitialized) /\ InitializeStep)
           => UNCHANGED <<ctxs, gains, audios, players, refVars>>]_vars

\* an initialization has run to its end and nothing has torn the engine down
Finished ==
    /\ audioContextRef # 0
    /\ inits = {}
    /\ \A c \in DOMAIN ctxs : ~ctxs[c].closing

\* layer l has a buffer and a player that loops it, started and with its
\* wake-up timer pending
Looping(l) ==
    /\ l \in DOMAIN layerAudioBuffersRef
    /\ l \in DOMAIN layerPlayersRef
    /\ LET pid == layerPlayersRef[l]
       IN  /\ players[pid].duration = layerAudioBuffersRef[l].duration
           /\ players[pid].isPlaying
           /\ players[pid].connected
           /\ \E i \in DOMAIN timers : timers[i].id = players[pid].timerId

\* whichever loads failed, the engine is Ready and every layer is looping
Degraded ==
    Finished => /\ isInitialized
                /\ ~isLoading
                /\ \A l \in Layers : Looping(l)

\* C12: whichever layer loads fail, a load that fails leaves a 2-second silent
\* buffer for its layer, and an initialization that runs to its end leaves
\* the engine Ready with a started LoopingPlayer on every layer, failed or not.
C12_DegradesToSilence ==
    [][/\ LoadSettles({createSilentAudioBuffer})
              => \E r \in inits, l \in Layers :
                     /\ l \in r.loads
                     /\ \A q \in inits' : q.ctx = r.ctx => l \notin q.loads
                     /\ layerAudioBuffersRef'[l].silent
                     /\ layerAudioBuffersRef'[l].duration = silentDuration
       /\ Degraded']_vars

\* the load of rain has failed and that of forest has not; the engine is
\* Ready and both layers are looping
C12_Witness ==
    /\ Finished
    /\ isInitialized
    /\ layerAudioBuffersRef["rain"] = createSilentAudioBuffer
    /\ layerAudioBuffersRef["forest"] = DecodedBuffer
    /\ \A l \in Layers : Looping(l)

\* the initializations that are waiting for a layer load
AwaitingLoads == {r \in inits : r.pc = "loading"}

\* C13: while a load of an initialization has not settled, the engine is
\* Loading and not Ready and the initialization has created no layer player;
\* and a load that succeeds stores its decoded buffer, whatever became of the
\* other loads.
C13_WaitsForLoads ==
    [][/\ \A r \in AwaitingLoads' :
              /\ isLoading'
              /\ ~isInitialized'
              /\ \A pid \in DOMAIN players' : players'[pid].ctx # r.ctx
       /\ LoadSettles({DecodedBuffer})
              => \E r \in inits, l \in Layers :
                     /\ l \in r.loads
                     /\ \A q \in inits' : q.ctx = r.ctx => l \notin q.loads
                     /\ layerAudioBuffersRef'[l] = DecodedBuffer]_vars

\* the initializations whose play() promises are rejected in this step: the
\* elements they played are paused again
Refused ==
    {r \in inits \ inits' :
        /\ r.pc = "playing"
        /\ \E a \in r.played : ~audios[a].paused /\ audios'[a].paused}

\* C14: when the play() promises of an initialization are rejected, the
\* engine is Ready all the same, the layer players are left as they are,
\* scheduling, and the master gain, at 0 until then, is ramped to 1, which it
\* reaches FADE_TIME later.
C14_PlayRefusedStillReady ==
    [][\A r \in Refused :
           LET now == Now(r.ctx)
           IN  /\ isInitialized'
               /\ ~isLoading'
               /\ UNCHANGED <<players, timers, segs, layerPlayersRef>>
               /\ ValueAt(gains[r.master].gain, now) = 0
               /\ InFlight(gains'[r.master].gain, now)
               /\ ValueAt(gains'[r.master].gain, now + FADE_TIME)
                      = GainScale]_vars

\* play() has been refused on every theme element of a started engine: the
\* elements are paused, the layer players are scheduling and the master gain
\* is on its way to 1
C14_Witness ==
    /\ isInitialized
    /\ Finished
    /\ \A a \in Range(themeAudioElementsRef) :
           audios[a].paused /\ audios[a].src
    /\ \A l \in Layers : Looping(l)
    /\ InFlight(gains[masterGainRef].gain, Now(audioContextRef))
    /\ Heard = GainScale

(***************************************************************************)
(* Claims about selectTheme and setMainVolume, checked under SpecMix.      *)
(***************************************************************************)
\* C15: selectTheme with a theme other than the active one ramps the gain of
\* the theme that was active from its current value (gain.value, as the code
\* reads it) to 0 and the gain of the new theme from 0 to the target volume,
\* both ramps ending FADE_TIME after the call, leaves the other theme gains
\* alone, and makes the new theme the active one in the same step.
C15_Crossfade ==
    [][\A th \in Themes :
           (/\ audioContextRef # 0
            /\ th # activeThemeId
            /\ selectTheme(th, Vol(7)))
               => LET now == Now(audioContextRef)
                      old == themeGainNodesRef[activeThemeId]
                      new == themeGainNodesRef[th]
                  IN  /\ OneRamp(gains'[old].gain, gains[old].gain.value, 0,
                                 now, now + FADE_TIME)
                      /\ OneRamp(gains'[new].gain, 0, Vol(7), now,
                                 now + FADE_TIME)
                      /\ \A g \in DOMAIN gains \ {old, new} :
                             gains'[g] = gains[g]
                      /\ activeThemeId' = th]_vars

\* selectTheme has just switched back to a theme whose gain had not faded out
\* yet: the gain restarts from 0
C15_Witness ==
    /\ last.op = "selectTheme"
    /\ ~last.returned
    /\ isInitialized
    /\ activeThemeId = last.arg
    /\ LET p == gains[themeGainNodesRef[activeThemeId]].gain
       IN  /\ p.value > 0
           /\ ValueAt(p, Now(audioContextRef)) = 0
           /\ Settled(p) = Vol(7)

\* the themes whose gain has a ramp in flight, and those whose gain is above 0
RampingThemes ==
    {th \in DOMAIN themeGainNodesRef :
        InFlight(gains[themeGainNodesRef[th]].gain, Now(audioContextRef))}

AudibleThemes ==
    {th \in DOMAIN themeGainNodesRef :
        ValueAt(gains[themeGainNodesRef[th]].gain, Now(audioContextRef)) > 0}

\* C16: at most one theme is active: whenever no theme gain has a ramp in
\* flight, at most one theme gain is above 0.
C16_OneThemeActive ==
    (audioContextRef # 0 /\ RampingThemes = {})
        => Cardinality(AudibleThemes) <= 1

(***************************************************************************)
(* Claims about the arguments of the controls and about calls made within  *)
(* one event handler, checked under SpecHandler.                           *)
(***************************************************************************)
\* the gain parameter p holds and is scheduled to hold values of [0, 1] only
InRange(p) ==
    /\ p.value \in 0..GainScale
    /\ \A i \in DOMAIN p.ev : p.ev[i].v \in 0..GainScale

\* C17: every gain, of a layer, of a theme and of the master, holds a value in
\* [0, 1] and has no target outside [0, 1], whatever volumes the operations
\* were given.
C17_GainsInRange ==
    /\ \A g \in DOMAIN gains : InRange(gains[g].gain)
    /\ \A pid \in DOMAIN players : InRange(players[pid].gain)

\* C18: an operation given an id the engine does not know changes nothing:
\* setLayerVolume with an unknown layer id, and setMainVolume and selectTheme
\* with an unknown theme id, leave every gain, the active theme id and the
\* recorded volumes as they are.
C18_UnknownIdNoOp ==
    [][(\/ \E v \in VolumeArgs : setLayerVolume("unknown", v, defaultDuration)
        \/ \E v \in VolumeArgs : setMainVolume(v, defaultDuration, "unknown")
        \/ selectTheme("unknown", Vol(7)))
           => UNCHANGED <<gains, players, activeThemeId,
                          currentVolumes>>]_vars

(***************************************************************************)
(* Claims about the controls around the life cycle, checked under          *)
(* SpecTeardown.                                                           *)
(***************************************************************************)
\* the control operations
Controls ==
    {"selectTheme", "setLayerVolume", "setMainVolume", "toggleMute",
     "resetAndPlayTheme"}

\* C19: a control operation called before initialize returns at its guard: it
\* schedules no timer and leaves the active theme, the muted flag, the
\* recorded volumes and every reference of the hook unchanged.
C19_ControlsBeforeInitialize ==
    [][(ctxs = <<>> /\ calls' = calls + 1 /\ last'.op \in Controls)
           => /\ last'.returned
              /\ UNCHANGED <<timers, activeThemeId, isMuted, currentVolumes,
                             gains, players, refVars>>]_vars

\* toggleMute and another control have been called on a hook that was never
\* initialized
C19_Witness ==
    /\ ctxs = <<>>
    /\ calls >= 2
    /\ last.op = "toggleMute"
    /\ last.returned
    /\ ~isMuted
    /\ timers = <<>>

\* C20: setMainVolume ramps the gain of the theme it is given, or of the
\* theme that is active at the time of the call when it is given none, also
\* when selectTheme has just changed the active theme, and changes no other
\* gain.
C20_MainVolumeTarget ==
    [][\A th \in {""} \cup Themes, v \in VolumeArgs :
           LET target == IF th # "" THEN th ELSE activeThemeId
               g == Get(themeGainNodesRef, target)
               now == Now(audioContextRef)
           IN  (/\ audioContextRef # 0
                /\ g # 0
                /\ setMainVolume(v, defaultDuration, th))
                   => /\ InFlight(gains'[g].gain, now)
                      /\ ValueAt(gains'[g].gain, now + defaultDuration) = v
                      /\ \A h \in DOMAIN gains \ {g} :
                             gains'[h] = gains[h]]_vars

(***************************************************************************)
(* Further claims about the LoopingPlayer, checked under SpecPlayer.       *)
(***************************************************************************)
\* the step is a call of the operation op
StepOf(op) == calls' = calls + 1 /\ last'.op = op

\* C22: stop() halts the scheduling and cancels the pending wake-up timer: it
\* leaves the player idle with no timer pending and the segments enqueued so
\* far as they are, and as long as the player stays idle no segment is added.
C22_StopHalts ==
    [][/\ StepOf("stop")
              => /\ segs' = segs
                 /\ \A pid \in DOMAIN players' : ~players'[pid].isPlaying
       /\ \A pid \in DOMAIN players' :
              ~players'[pid].isPlaying
                  => /\ players'[pid].timerId = 0
                     /\ \A i \in DOMAIN timers' : timers'[i].owner # pid
       /\ \A pid \in DOMAIN players :
              (~players[pid].isPlaying /\ ~players'[pid].isPlaying)
                  => segs'[pid] = segs[pid]]_vars

\* the player was stopped after it had enqueued a segment, and time has
\* passed since
C22_Witness ==
    /\ last.op = "stop"
    /\ ~players[1].isPlaying
    /\ segs[1] # <<>>
    /\ timers = <<>>
    /\ wall >= segs[1][Len(segs[1])].at + 3

\* C23: start() on a player that is scheduling changes nothing: not the next
\* start time, not the segments, not the timers.
C23_StartWhileScheduling ==
    [][\A pid \in DOMAIN players :
           (players[pid].isPlaying /\ StepOf("start"))
               => UNCHANGED <<players, timers, segs>>]_vars

\* start() has returned at its guard on a player that is scheduling and has
\* enqueued a segment
C23_Witness ==
    /\ last.op = "start"
    /\ last.returned
    /\ players[1].isPlaying
    /\ segs[1] # <<>>
    /\ \E i \in DOMAIN timers : timers[i].id = players[1].timerId

(***************************************************************************)
(* Further claims about the ramps, checked under SpecMix and SpecReset.    *)
(***************************************************************************)
\* the parameter q holds the value v from the time end on
HoldsFrom(q, v, end) == \A t \in end..(end + FADE_TIME) : ValueAt(q, t) = v

\* C24: the ramp requests on the gain of one playback unit, a layer or a
\* theme, are applied in call order: whatever was requested on the gain
\* before, after a request the gain holds the target of that request from the
\* end of its ramp on.
C24_LastRequestWins ==
    [][/\ \A l \in Layers, r \in VolumeRequests :
              (~setLayerVolumeReturns(l) /\ setLayerVolume(l, r[1], r[2]))
                  => HoldsFrom(players'[layerPlayersRef[l]].gain, r[1],
                               Now(audioContextRef) + r[2])
       /\ \A th \in {""} \cup Themes :
              (/\ ~setMainVolumeReturns(th)
               /\ setMainVolume(Vol(5), FADE_TIME, th))
                  => HoldsFrom(gains'[themeGainNodesRef[targetId(th)]].gain,
                               Vol(5), Now(audioContextRef) + FADE_TIME)
       /\ \A th \in Themes :
              (~selectThemeReturns(th) /\ selectTheme(th, Vol(7)))
                  => /\ HoldsFrom(gains'[themeGainNodesRef[th]].gain, Vol(7),
                                  Now(audioContextRef) + FADE_TIME)
                     /\ HoldsFrom(
                            gains'[themeGainNodesRef[activeThemeId]].gain,
                            0, Now(audioContextRef) + FADE_TIME)]_vars

\* setMainVolume has been called on a theme that selectTheme was still fading
\* in: the gain leaves its fade-in part-way and goes to 0.5
C24_Witness ==
    /\ last.op = "setMainVolume"
    /\ ~last.returned
    /\ activeThemeId # props.initialThemeId
    /\ LET p == gains[themeGainNodesRef[activeThemeId]].gain
           n == Len(p.ev)
       IN  /\ n >= 2
           /\ p.ev[n - 1].kind = "set"
           /\ p.ev[n - 1].t = Now(audioContextRef)
           /\ p.ev[n - 1].v > 0
           /\ p.ev[n - 1].v < Vol(5)
           /\ p.ev[n].kind = "ramp"
           /\ p.ev[n].v = Vol(5)

\* the ramp events the step has added to the timeline of a gain, given the
\* timeline before (p) and after (q)
NewRamps(p, q) ==
    {i \in DOMAIN q.ev :
        /\ q.ev[i].kind = "ramp"
        /\ \A j \in DOMAIN p.ev : p.ev[j] # q.ev[i]}

\* every ramp added to the timeline q at context time now comes right after a
\* setValueAtTime at now of the value the gain had, and after it nothing else
\* is scheduled
Anchored(p, q, now) ==
    \A i \in NewRamps(p, q) :
        /\ i = Len(q.ev)
        /\ i >= 2
        /\ q.ev[i - 1] = [kind |-> "set", v |-> p.value, t |-> now]
        /\ \A j \in 1..(i - 2) : q.ev[j].t < now

\* C25: every ramp the engine installs on the master gain, a theme gain or a
\* layer gain comes after the pending automation of that gain has been
\* cancelled and the current value has been set at the current time.
C25_RampsAnchored ==
    [][/\ \A g \in DOMAIN gains :
              Anchored(gains[g].gain, gains'[g].gain, Now(gains[g].ctx))
       /\ \A pid \in DOMAIN players :
              Anchored(players[pid].gain, players'[pid].gain,
                       Now(players[pid].ctx))]_vars

(***************************************************************************)
(* Further claims about the engine and its life cycle, checked under       *)
(* SpecTeardown and SpecLife.                                              *)
(***************************************************************************)
\* the stream of every theme is playing
StreamsPlaying ==
    \A th \in Themes :
        /\ th \in DOMAIN themeAudioElementsRef
        /\ ~audios[themeAudioElementsRef[th]].paused
        /\ audios[themeAudioElementsRef[th]].src

\* the step is the continuation of resetAndPlayTheme
ContinuationStep == \E i \in DOMAIN timers : timers[i].kind = "reset" /\ Ran(i)

\* C26: the theme streams are started at initialization, every one of them,
\* and play on whatever is audible: selectTheme, setMainVolume, toggleMute
\* and resetAndPlayTheme, its continuation included, start, pause and stop no
\* stream.
C26_StreamsKeepPlaying ==
    [][/\ (Finished /\ isInitialized)' => StreamsPlaying'
       /\ (\/ \E op \in Controls : StepOf(op)
           \/ ContinuationStep)
              => UNCHANGED <<audios, themeAudioElementsRef>>]_vars

\* selectTheme has switched themes on a started engine: the stream of the
\* theme that is fading out plays on
C26_Witness ==
    /\ last.op = "selectTheme"
    /\ ~last.returned
    /\ Finished
    /\ isInitialized
    /\ activeThemeId # props.initialThemeId
    /\ Settled(gains[themeGainNodesRef[props.initialThemeId]].gain) = 0
    /\ StreamsPlaying

\* the initializations that run to their end in this step, on a context that
\* is not being closed
Finishing ==
    {r \in inits \ inits' : r.pc = "playing" /\ ~ctxs[r.ctx].closing}

\* C27: when an initialization succeeds, every layer gain is the volume the
\* provided map has for the layer (0 when it has none), the gain of the
\* initial theme is the initial main volume and that of every other theme is
\* 0, and the master gain, which was 0 until then, goes from 0 to 1 in one
\* ramp that starts at that moment and takes FADE_TIME.
C27_InitialMix ==
    [][\A r \in Finishing :
           LET now == Now(r.ctx)
           IN  /\ \A l \in DOMAIN layerPlayersRef' :
                      ValueAt(players'[layerPlayersRef'[l]].gain, now)
                          = IF l \in DOMAIN props.initialVolumes
                            THEN props.initialVolumes[l] ELSE 0
               /\ \A th \in DOMAIN themeGainNodesRef' :
                      ValueAt(gains'[themeGainNodesRef'[th]].gain, now)
                          = IF th = props.initialThemeId
                            THEN props.initialMainVolume ELSE 0
               /\ ValueAt(gains[r.master].gain, now) = 0
               /\ OneRamp(gains'[r.master].gain, 0, GainScale, now,
                          now + FADE_TIME)]_vars

\* theme th has a playback unit: its element, with a source, and its gain
HasStream(th) ==
    /\ th \in DOMAIN themeAudioElementsRef
    /\ audios[themeAudioElementsRef[th]].src
    /\ th \in DOMAIN themeGainNodesRef

\* C28: whenever the engine reports initialized, every layer has a buffer and
\* a player that is looping it, and every theme has its stream and gain.
C28_ReadyMeansLive ==
    isInitialized => /\ \A l \in Layers : Looping(l)
                     /\ \A th \in Themes : HasStream(th)


\* the players that are scheduling, and the streams of theme th that play
Scheduling == {pid \in DOMAIN players : players[pid].isPlaying}

PlayingStreams(th) ==
    {a \in DOMAIN audios : audios[a].theme = th /\ ~audios[a].paused}

\* C29: at most one playback unit per asset id is live.  Every player loops
\* the buffer of one layer, so there are never more players scheduling than
\* there are layers, and no theme has two streams playing.
C29_OneUnitPerAsset ==
    /\ Cardinality(Scheduling) <= Cardinality(Layers)
    /\ \A th \in Themes : Cardinality(PlayingStreams(th)) <= 1


\* the members of the enum AudioState, and the member that stands for a
\* state of the audio context
AudioStateMembers == {"Suspended", "Running", "Closed"}

MemberFor(st) ==
    CASE st = "suspended" -> "Suspended"
      [] st = "running" -> "Running"
      [] OTHER -> "Closed"

\* C30: the engine state is always a member of AudioState, and once the
\* queued state changes are delivered it is the member that stands for the
\* state of the engine's context.
C30_StateFollowsContext ==
    /\ audioState \in AudioStateMembers
    /\ (audioContextRef # 0 /\ events = {})
           => audioState = MemberFor(ctxs[audioContextRef].state)


(***************************************************************************)
(* The claim about App's persistence, checked under SpecApp.               *)
(***************************************************************************)
\* App is at rest over a started engine: no handler is running and no
\* continuation of resetAndPlayTheme is waiting for its timer
AtRest ==
    /\ isInitialized
    /\ AppIdle
    /\ \A i \in DOMAIN timers : timers[i].kind # "reset"

\* C21: whenever App is at rest, the props that the snapshot in localStorage
\* gives the hook when the page is loaded again, which initializeAudio turns
\* into its first gains, are the targets the engine holds: the main volume
\* for the gain of the active theme and the stored volume for the gain of
\* every layer.
C21_RoundTrip ==
    AtRest =>
        LET pr == hookProps(Mount(app.storage, app.session + 1))
        IN  /\ Settled(gains[themeGainNodesRef[pr.initialThemeId]].gain)
                   = pr.initialMainVolume
            /\ \A l \in Layers :
                   Settled(players[layerPlayersRef[l]].gain)
                       = Get(pr.initialVolumes, l)


(***************************************************************************)
(* Claims about the exposed state of a started engine.                     *)
(***************************************************************************)
\* no continuation of resetAndPlayTheme is waiting for its timer
NoResetPending == \A i \in DOMAIN timers : timers[i].kind # "reset"

\* the muted flag agrees with the level the master gain settles at: 0 when
\* muted, 1 when not
MuteAgrees ==
    masterGainRef # 0 /\ Settled(gains[masterGainRef].gain) = muteTarget(isMuted)

\* C31: on a started engine whose controls are used only once it is started,
\* the muted flag agrees with the level the master gain settles at, after
\* any toggleMute and resetAndPlayTheme calls, whenever no reset is under
\* way.
C31_MutedAgreesWithMaster ==
    (isInitialized /\ NoResetPending) => MuteAgrees

\* C32: on a started engine with no reset under way, currentVolumes holds for
\* every layer the level that layer's gain settles at.
C32_VolumesAgreeWithGains ==
    (isInitialized /\ NoResetPending)
        => \A l \in DOMAIN layerPlayersRef :
               Get(currentVolumes, l)
                   = Settled(players[layerPlayersRef[l]].gain)


(***************************************************************************)
(* Claims about calls that overlap, checked under SpecLife, SpecTeardown   *)
(* and SpecReset.                                                          *)
(***************************************************************************)
\* C33: when initializeAudio was called once, cleanupAudio was the last call
\* and the initializeAudio call has finished, the engine is torn down: it
\* does not report initialized, no player is scheduling and no wake-up timer
\* is pending.
C33_CleanupWhileLoading ==
    (Len(ctxs) = 1 /\ last.op = "cleanup" /\ inits = {})
        => /\ ~isInitialized
           /\ Scheduling = {}
           /\ \A i \in DOMAIN timers : timers[i].kind # "scheduler"


\* cleanupAudio has been called and no engine was started since
CleanedUp == audioContextRef = 0 /\ masterGainRef = 0

\* C34: a continuation of resetAndPlayTheme that runs after cleanupAudio
\* changes nothing: the active theme id, currentVolumes, the gains of the
\* master and the themes and the gains of the players stay as they were.
C34_ResetAfterCleanup ==
    [][(CleanedUp /\ last'.op = "resetFires" /\ timers' # timers)
          => UNCHANGED <<activeThemeId, currentVolumes, gains, players>>]_vars


\* the step runs the continuation of the pending reset timer i
FiredReset(i) ==
    /\ timers[i].kind = "reset"
    /\ timers' = RemoveAt(timers, i)
    /\ last'.op = "resetFires"
    /\ ~last'.returned

\* the active theme id and the levels the theme and layer gains settle at
Mix ==
    [theme |-> activeThemeId,
     themes |-> [th \in DOMAIN themeGainNodesRef |->
                    Settled(gains[themeGainNodesRef[th]].gain)],
     layers |-> [l \in DOMAIN layerPlayersRef |->
                    Settled(players[layerPlayersRef[l]].gain)]]

\* the mix the configuration cfg asks for
MixOf(cfg) ==
    [theme |-> cfg.newThemeAudioId,
     themes |-> [th \in DOMAIN themeGainNodesRef |-> themeTarget(cfg, th)],
     layers |-> [l \in DOMAIN layerPlayersRef |-> layerTarget(cfg, l)]]

\* C35: on a started engine the continuations of resetAndPlayTheme run in the
\* order of their calls, and when the last one has run the theme gains, the
\* layer gains and the active theme id are those of its call, the later one,
\* and the master gain of an engine that is not muted settles at 1.
C35_SecondResetWins ==
    [][\A i \in DOMAIN timers :
           (isInitialized /\ FiredReset(i))
               => /\ \A j \in 1..(i - 1) : timers[j].kind # "reset"
                  /\ NoResetPending'
                        => /\ Mix' = MixOf(timers[i].cfg)
                           /\ ~isMuted
                                 => Settled(gains'[masterGainRef].gain)
                                        = GainScale]_vars

\* two calls have overlapped and both continuations have run: the fade-in of
\* the first is on the master's timeline before the fade-in of the second,
\* and the gain of the first theme was set by the first call and then
\* silenced by the second
C35_Witness ==
    /\ isInitialized
    /\ last.op = "resetFires"
    /\ NoResetPending
    /\ activeThemeId = ThemeSeq[2]
    /\ LET m == gains[masterGainRef].gain.ev
           g == gains[themeGainNodesRef[ThemeSeq[1]]].gain.ev
       IN  /\ \E a, b \in DOMAIN m :
                  /\ a < b
                  /\ m[a].kind = "ramp" /\ m[a].v = GainScale
                  /\ m[b].kind = "ramp" /\ m[b].v = GainScale
                  /\ m[a].t < m[b].t
           /\ \E a, b \in DOMAIN g :
                  /\ a < b
                  /\ g[a].kind = "set" /\ g[a].v = Vol(5)
                  /\ g[b].kind = "set" /\ g[b].v = 0


(***************************************************************************)
(* Claims about the wake-ups of a LoopingPlayer, checked under SpecPlayer. *)
(***************************************************************************)
\* the step is the wake-up of the pending scheduler timer i: the timer is
\* gone and no call was made
Woke(i) ==
    /\ timers[i].kind = "scheduler"
    /\ calls' = calls
    /\ wall' = wall
    /\ \A j \in DOMAIN timers' : timers'[j] # timers[i]

\* the time since timer i was armed, by the wake-up or the start() before it
SinceArmed(i) == wall - (timers[i].due - lookahead)

\* C36: when a wake-up comes less than scheduleAheadTime after the one
\* before it, every segment it enqueues starts at or after the time of the
\* wake-up, and it leaves nextNoteTime at now + scheduleAheadTime or later.
C36_AheadOfDeadline ==
    [][\A i \in DOMAIN timers :
           (Woke(i) /\ SinceArmed(i) < scheduleAheadTime)
               => LET pid == timers[i].owner
                      now == Now(players[pid].ctx)
                  IN  /\ \A k \in (Len(segs[pid]) + 1)..Len(segs'[pid]) :
                             /\ segs'[pid][k].at = now
                             /\ segs'[pid][k].time >= now
                      /\ players'[pid].nextNoteTime
                             >= now + scheduleAheadTime]_vars

\* a wake-up that came 75 ms after the one before it has enqueued a segment,
\* one tick ahead of its start
C36_Witness ==
    /\ players[1].isPlaying
    /\ segs[1] # <<>>
    /\ LET s == segs[1][Len(segs[1])]
       IN  s.at = Now(1) /\ s.time = s.at + 1


(***************************************************************************)
(* The claim about a theme switch in App, checked under SpecApp.           *)
(***************************************************************************)
\* handleThemeChange has made its last call of the hook and React has not
\* rendered yet: localStorage still holds the theme of the last render
ThemeSwitched ==
    /\ isInitialized
    /\ app.dirty
    /\ app.todo = <<>>
    /\ last.op \in {"selectTheme", "setLayerVolume"}
    /\ app.storage["active_theme_id"] # app.activeThemeId

\* C37: when handleThemeChange has made its calls, the gain of every layer
\* is headed for the volume App shows and stores for that layer in the new
\* active theme if the layer is one of the theme's layers, the custom
\* theme's included, and for 0 otherwise.
C37_SwitchSetsLayerGains ==
    ThemeSwitched
        => \A l \in Layers :
               Settled(players[layerPlayersRef[l]].gain)
                   = allInitialVolumes(app)[l]


(***************************************************************************)
(* The claim about the independence of the gains, checked under SpecMix.   *)
(***************************************************************************)
\* the gain parameters of the layer players other than that of layer l
\* ("" for none) are as they were
OtherLayerGainsKept(l) ==
    \A k \in DOMAIN layerPlayersRef :
        k # l => players'[layerPlayersRef[k]].gain
                     = players[layerPlayersRef[k]].gain

\* C38: a setLayerVolume leaves the gain of every other layer, of every
\* theme and of the master as it was, and a selectTheme or a setMainVolume
\* leaves the gain of every layer and of the master as it was.
C38_GainsIndependent ==
    [][/\ StepOf("setLayerVolume")
           => OtherLayerGainsKept(last'.arg) /\ gains' = gains
       /\ (StepOf("selectTheme") \/ StepOf("setMainVolume"))
           => /\ OtherLayerGainsKept("")
              /\ masterGainRef # 0
                    => gains'[masterGainRef] = gains[masterGainRef]]_vars

\* a setLayerVolume has ramped the gain of rain on an engine whose forest
\* gain is headed for another, audible, volume and whose active theme has
\* been switched
C38_Witness ==
    /\ isInitialized
    /\ last.op = "setLayerVolume" /\ last.arg = "rain" /\ ~last.returned
    /\ Len(players[layerPlayersRef["rain"]].gain.ev) > 1
    /\ Settled(players[layerPlayersRef["forest"]].gain) # 0
    /\ Settled(players[layerPlayersRef["forest"]].gain)
           # Settled(players[layerPlayersRef["rain"]].gain)
    /\ activeThemeId # ThemeSeq[1]


(***************************************************************************)
(* Claims about the wake-up timer of a LoopingPlayer, checked under        *)
(* SpecPlayer.                                                             *)
(***************************************************************************)
\* the pending wake-up timers of player pid
PendingWakeups(pid) ==
    {i \in DOMAIN timers :
        timers[i].kind = "scheduler" /\ timers[i].owner = pid}

\* C39: a player never has more than one wake-up timer pending, whatever
\* start() and stop() calls and wake-ups came before, and a player that is
\* scheduling has exactly one, the one timerId names.
C39_OneWakeupPending ==
    \A pid \in DOMAIN players :
        /\ Cardinality(PendingWakeups(pid)) <= 1
        /\ players[pid].isPlaying
               => /\ Cardinality(PendingWakeups(pid)) = 1
                  /\ \A i \in PendingWakeups(pid) :
                         timers[i].id = players[pid].timerId

\* after start(), stop(), start() the second run has been woken and has
\* enqueued a segment, and one timer is pending
C39_Witness ==
    /\ calls = 3
    /\ last.op = "start" /\ ~last.returned
    /\ players[1].run = 2
    /\ \E k \in DOMAIN segs[1] : segs[1][k].run = 2
    /\ Cardinality(PendingWakeups(1)) = 1


(***************************************************************************)
(* The claim about the end of the scheduling loop, checked under           *)
(* SpecPlayer.                                                             *)
(***************************************************************************)
\* segs[pid] has grown by n segments in this step
Enqueued(pid, n) == Len(segs'[pid]) = Len(segs[pid]) + n

\* C40: the loop of a wake-up ends.  start() sets a player scheduling only
\* if its buffer is longer than the overlap, so each pass of the loop moves
\* nextNoteTime on by a positive period; a wake-up enqueues no more segments
\* than periods fit between nextNoteTime and now + scheduleAheadTime, the
\* last of them before that horizon, and leaves nextNoteTime at or beyond it.
C40_WakeupTerminates ==
    [][/\ \A pid \in DOMAIN players' :
              players'[pid].isPlaying
                  => players'[pid].duration > OVERLAP_DURATION
       /\ \A i \in DOMAIN timers :
              Woke(i)
                  => LET pid == timers[i].owner
                         p == players[pid]
                         period == p.duration - OVERLAP_DURATION
                         horizon == Now(p.ctx) + scheduleAheadTime
                     IN  \E n \in 0..(horizon + 1) :
                             /\ Enqueued(pid, n)
                             /\ players'[pid].nextNoteTime
                                    = p.nextNoteTime + n * period
                             /\ players'[pid].nextNoteTime >= horizon
                             /\ n > 0 => players'[pid].nextNoteTime - period
                                             < horizon
                             /\ n * period
                                    < horizon - p.nextNoteTime + period]_vars

\* a wake-up that came late has run its loop twice and no more: the two
\* segments it enqueued are the last of the queue, and the next start time
\* is at the horizon or beyond
C40_Witness ==
    /\ players[1].isPlaying
    /\ Len(segs[1]) >= 2
    /\ LET n == Len(segs[1])
       IN  /\ segs[1][n].at = Now(1)
           /\ segs[1][n - 1].at = Now(1)
           /\ n > 2 => segs[1][n - 2].at < Now(1)
           /\ segs[1][n].time < Now(1) + scheduleAheadTime
           /\ players[1].nextNoteTime >= Now(1) + scheduleAheadTime

=============================================================================
